---- MODULE Spec2Model ----
(***************************************************************************)
(* Model of aoc_lib, a benchmarking harness that traces its own memory.    *)
(*   - Buffer        (src/src/alloc/buffer.rs): the growable event store.  *)
(*   - TracingAlloc  (src/src/alloc.rs): the allocation hook, its active   *)
(*     flag, the file_access_sync spin lock, the trace file and timestamp. *)
(*   - bench.rs: the replay of a trace (get_data), the timed loop.         *)
(*   - lib.rs, bench/simple.rs, bench/detailed.rs: the pool, the jobs, the *)
(*     event channel and its handler, the chunking of the functions.       *)
(*   - parsers.rs: signed_number.                                          *)
(* Specifications: SpecBuffer and SpecGrow drive one Buffer; Spec,         *)
(* SpecFair, SpecJobs and SpecSession drive one shared TracingAlloc from   *)
(* several threads, one atomic access per step; SpecReplay, SpecTraced,    *)
(* SpecTimed, SpecEvents, SpecEventsFair, SpecDetailed, SpecPool,          *)
(* SpecChunks and SpecParse drive the parts of the harness.                *)
(***************************************************************************)
EXTENDS Integers, Sequences, FiniteSets, TLC

VARIABLES
    buffer,            \* Buffer { capacity, length, buf }
    aborted,           \* handle_alloc_error was reached: the process is gone
    dropped,           \* Drop for Buffer has run
    pushed,            \* history: the events pushed since new() or the last clear()
    grows,             \* history: number of completed grow() calls
    nOps,              \* history: number of Buffer operations performed after Init
    realloc_ret,       \* history: what System.realloc returned to the last push
                       \*          ("none": the push did not grow)
    clears,            \* history: number of clear() calls
    active,            \* TracingAlloc.active
    file_access_sync,  \* TracingAlloc.file_access_sync
    output_file,       \* TracingAlloc.output_file : None or a file handle
    timestamp,         \* TracingAlloc.timestamp : None or an instant
    files,             \* the content of every trace file: a sequence of lines
    clock,             \* Instant::now()
    pc,                \* per thread: the statement it is about to execute
    op,                \* per thread: the public operation it is inside
    ev,                \* per thread: the Event handed to write_ev
    arg,               \* per thread: the File handed to set_file
    seen_active,       \* per thread: what its load of active returned
    ret,               \* per thread: old_file, the value set_file / clear_file will return
    my_ts,             \* per thread, history: the instant its enable_tracing stored
    skipped,           \* history: alloc/dealloc calls that found active false with a
                       \*          file and a timestamp installed, and recorded nothing
    nCalls,            \* history: number of calls started on the TracingAlloc
    trace_input,       \* get_data: the text of the trace file, a sequence of lines
    memory,            \* get_data: the MemoryData it returned (NoMemory: not called yet)
    job,               \* per thread: where its job stands in benchmark()
    bench_time,        \* args.bench_time, in seconds
    min_run,           \* bench_function: min_run of the five estimate runs, in ns
    total_runs,        \* bench_function: total_runs
    samples,           \* the readings of the timed runs
    runtime,           \* bench_function: the RuntimeData it returned
    outcome,           \* per job: what its candidate function does
    run_only,          \* ARGS.run_type.is_run_only()
    chan,              \* the BenchEvent channel: events sent and not yet received
    senders,           \* who still holds a Sender of the channel
    received,          \* per job: the events the handler has matched, in order
    process,           \* "running", or "aborted" once the process is gone
    sent,              \* per job: the events it has sent, in order
    handler,           \* the handler of the events: "unstarted", "running", "done"
    main_pc,           \* where the dispatching thread stands
    variant,           \* which bench_days_chunk runs: "lib" or "simple"
    hook,              \* the panic hook of the process
    old_panic_hook,    \* bench_days_chunk: old_panic_hook
    time_chan,         \* the Duration channel: means sent by the handler
    reported_time,        \* what bench_days_chunk returned (-1: nothing yet)
    timing_data,       \* per job: funcs[id].timing_data (-1: None)
    receiver,          \* the Receiver of the event channel is alive
    run_total,         \* run: the total of the chunks folded so far
    chunk,             \* run: the number of the chunk at work
    means_received,    \* the sum of the means of all Timing events matched
    physical,          \* num_cpus::get_physical()
    num_threads,       \* ARGS.num_threads, <<>> for None and <<n>> for Some(n)
    pool_threads,      \* the threads of the pool built (-1: not built)
    trace_file,        \* per thread: the file benchmark() gave to set_file
    got_back,          \* per thread: what clear_file returned to benchmark()
    progress_bar,      \* detailed.rs: the position of the progress bar
    is_error,          \* per job: funcs[id].is_error
    memory_data,       \* per job: funcs[id].memory_data (-1: None)
    rendered,          \* bench_days: "none", then "ok", or "panicked" in an expect
    rows,              \* the height of the terminal, stdout.size()
    days,              \* run: the days to bench, each with or without a part 2
    cur_chunk,         \* run: cur_chunk
    benched_functions, \* run: benched_functions, the chunks pushed so far
    parse_in,          \* signed_number: its input
    parse_out          \* signed_number: what it returned (NoParse: not called)

bufVars   == <<buffer, aborted, dropped, pushed, grows, clears, nOps, realloc_ret>>
allocVars == <<active, file_access_sync, output_file, timestamp, files, clock>>
thrVars   == <<pc, op, ev, arg, seen_active, ret, my_ts, skipped, nCalls>>
timedVars == <<bench_time, min_run, total_runs, samples, runtime>>
eventVars ==
    <<outcome, run_only, chan, senders, received, process, sent, handler,
      main_pc, variant, hook, old_panic_hook, time_chan, reported_time,
      timing_data, receiver, run_total, chunk, means_received>>
poolVars == <<physical, num_threads, pool_threads>>
fileVars == <<trace_file, got_back>>
uiVars == <<progress_bar, is_error, memory_data, rendered>>
chunkVars == <<rows, days, cur_chunk, benched_functions>>
parseVars == <<parse_in, parse_out>>
restVars == <<uiVars, chunkVars, parseVars>>
moreVars == <<poolVars, fileVars, restVars>>
benchVars == <<trace_input, memory, job, timedVars, eventVars, moreVars>>
vars      == <<bufVars, allocVars, thrVars, benchVars>>

\* Option: None for a file handle, NoInstant / Some(t) for an instant.
None == "None"
NoInstant == <<>>
Some(t) == <<t>>

(***************************************************************************)
(* Event (alloc.rs): Alloc{addr,size} | Free{addr,size} | Start | End.     *)
(* Uninit stands for a cell of the allocation that was never written.      *)
(***************************************************************************)
Event(kind, addr, size) == [kind |-> kind, addr |-> addr, size |-> size]
EvStart == Event("Start", 0, 0)
EvEnd   == Event("End", 0, 0)
Uninit  == Event("Uninit", 0, 0)

(***************************************************************************)
(* Bounds of the model: Buffer operations explored after the initial run   *)
(* of pushes, calls started on the TracingAlloc, ticks of the clock.       *)
(***************************************************************************)
MaxOps == 4
MaxCalls == 5
MaxClock == 1

\* ------------------------------------------------------------------------
\* Buffer (src/src/alloc/buffer.rs)
\* ------------------------------------------------------------------------
INITIAL_SIZE == 1024

\* Mutants of SystemRealloc: the old cells are not carried over; the call is
\* made on the global (instrumented) allocator.
SystemRealloc_nocopy(old, n) ==
    [mem |-> [i \in 1..Len(old) |-> Uninit] \o [i \in 1..(n - Len(old)) |-> Uninit],
     via |-> "System"]

GlobalRealloc(old, n) ==
    [mem |-> old \o [i \in 1..(n - Len(old)) |-> Uninit],
     via |-> "Global"]

\* System.alloc / System.realloc: a block of n cells holding the first cells
\* of the old block, the rest never written.  The instrumented allocator is
\* not involved: `via` names the allocator the call was made on.
SystemRealloc(old, n) ==
    [mem |-> old \o [i \in 1..(n - Len(old)) |-> Uninit],
     via |-> "System"]

Buffer_new ==
    [capacity |-> INITIAL_SIZE,
     length   |-> 0,
     buf      |-> SystemRealloc(<<>>, INITIAL_SIZE).mem]

\* Mutant of Buffer_clear: the block is given back down to its initial size.
Buffer_clear_shrink(b) ==
    [capacity |-> INITIAL_SIZE, length |-> 0, buf |-> SubSeq(b.buf, 1, INITIAL_SIZE)]

Buffer_clear(b) == [b EXCEPT !.length = 0]

\* Mutants of Buffer_grow: nothing is reallocated; the capacity grows by a
\* fixed step instead of doubling.
Buffer_grow_noop(b) == b

Buffer_grow_step(b) ==
    [b EXCEPT !.buf = SystemRealloc(b.buf, b.capacity + INITIAL_SIZE).mem,
              !.capacity = b.capacity + INITIAL_SIZE]

\* grow(): new_capacity = capacity * 2, the block is reallocated by System.
\* (checked_mul and Layout::array cannot fail for the capacities reached here;
\* a null from realloc ends in handle_alloc_error, see Push_abort.)
Buffer_grow(b) ==
    LET new_capacity == b.capacity * 2
        r == SystemRealloc(b.buf, new_capacity)
    IN  [b EXCEPT !.buf = r.mem, !.capacity = new_capacity]

\* the allocator grow() calls
Buffer_grow_via(b) == SystemRealloc(b.buf, b.capacity * 2).via

Buffer_push(b, event) ==
    LET g == IF b.length = b.capacity THEN Buffer_grow(b) ELSE b
    IN  [g EXCEPT !.buf[g.length + 1] = event, !.length = g.length + 1]

Buffer_iter(b) == SubSeq(b.buf, 1, b.length)

\* Drop for Buffer: the block goes back to System, sized by capacity.
Buffer_drop_via(b) == "System"

\* ------------------------------------------------------------------------
\* TracingAlloc (src/src/alloc.rs)
\* ------------------------------------------------------------------------
Threads == {"t1", "t2"}
Files   == {"f1", "f2"}
Sizes   == {8}

\* write_ev's match: the symbol and size written for an event.
Symbol(e) ==
    CASE e.kind = "Alloc" -> "A"
      [] e.kind = "Free"  -> "F"
      [] e.kind = "Start" -> "S"
      [] e.kind = "End"   -> "E"

LineSize(e) == IF e.kind \in {"Alloc", "Free"} THEN e.size ELSE 0

\* writeln!(file, "{} {} {}", symbol, elapsed.as_nanos(), size)
Line(e, ts, now) == [symbol |-> Symbol(e), elapsed |-> now - ts, size |-> LineSize(e)]

\* Mutant of WriteEvFiles: the line is written twice.
WriteEvFiles_twice(fs, of, ts, now, e) ==
    IF of # None /\ ts # NoInstant
    THEN [fs EXCEPT ![of] = Append(Append(@, Line(e, ts[1], now)), Line(e, ts[1], now))]
    ELSE fs

\* What the body of write_ev leaves in the trace files: one line appended to
\* the installed file when both the file and the timestamp are set.
WriteEvFiles(fs, of, ts, now, e) ==
    IF of # None /\ ts # NoInstant
    THEN [fs EXCEPT ![of] = Append(@, Line(e, ts[1], now))]
    ELSE fs

\* TracingAlloc::new
TracingAlloc_new ==
    [active |-> FALSE, file_access_sync |-> FALSE, output_file |-> None, timestamp |-> NoInstant]

\* A call made on the global allocator reaches TracingAlloc::alloc/dealloc
\* (realloc there is alloc + copy + dealloc) and is recorded while active; a
\* call made on System is not seen by the hook.
HookFiles(via, fs) ==
    IF via = "Global" /\ active
    THEN WriteEvFiles(WriteEvFiles(fs, output_file, timestamp, clock, Event("Alloc", 1, 0)),
                      output_file, timestamp, clock, Event("Free", 1, 0))
    ELSE fs

\* ------------------------------------------------------------------------
\* SpecBuffer: one Buffer, driven by push, clear and drop.
\* ------------------------------------------------------------------------
\* The events handed to push after Init, and the i-th event of the initial run.
PushEvents == {EvStart, EvEnd, Event("Alloc", 1, 8), Event("Free", 1, 8)}
FillEvent(i) == Event("Alloc", i, i)

\* Lengths of the initial run of pushes: none, one short of the first grow,
\* one short of the second grow.
PreFill == {0, INITIAL_SIZE - 1, 2 * INITIAL_SIZE - 1}

\* push applied to FillEvent(lo) .. FillEvent(hi), in that order.
RECURSIVE PushRange(_, _, _)
PushRange(b, lo, hi) ==
    IF lo > hi THEN b
    ELSE IF lo = hi THEN Buffer_push(b, FillEvent(lo))
    ELSE LET mid == (lo + hi) \div 2
             left == PushRange(b, lo, mid)
         IN  IF left.length >= 0 THEN PushRange(left, mid + 1, hi) ELSE left

\* The allocator as TracingAlloc::new leaves it, or tracing into file f1.
TracingContexts ==
    {[active |-> FALSE, output_file |-> None, timestamp |-> NoInstant,
      files |-> [f \in Files |-> <<>>]],
     [active |-> TRUE, output_file |-> "f1", timestamp |-> Some(0),
      files |-> [f \in Files |-> IF f = "f1" THEN <<Line(EvStart, 0, 0)>> ELSE <<>>]]}

\* The locals of a thread that is inside no call.
NoLocals ==
    [op |-> "none", ev |-> EvStart, arg |-> None, seen_active |-> FALSE,
     ret |-> None, my_ts |-> NoInstant]

\* get_data has not returned.
NoRuntime == [total_runs |-> -1, min_run |-> -1, mean_run |-> -1, max_run |-> -1]
NoSamples == [run |-> 0, slow |-> 0, nSlow |-> 0, late |-> 0]
TimedIdle ==
    /\ bench_time = 0
    /\ min_run = -1
    /\ total_runs = 0
    /\ samples = NoSamples
    /\ runtime = NoRuntime

EventsIdle ==
    /\ outcome = [t \in Threads |-> "ok"]
    /\ run_only = FALSE
    /\ chan = <<>>
    /\ senders = {}
    /\ received = [t \in Threads |-> <<>>]
    /\ process = "running"
    /\ sent = [t \in Threads |-> <<>>]
    /\ handler = "unstarted"
    /\ main_pc = "none"
    /\ variant = "lib"
    /\ hook = "entry"
    /\ old_panic_hook = "none"
    /\ time_chan = <<>>
    /\ reported_time = -1
    /\ timing_data = [t \in Threads |-> -1]
    /\ receiver = TRUE
    /\ run_total = 0
    /\ chunk = 0
    /\ means_received = 0

NoParse == [state |-> "none", rest |-> <<>>, ok |-> FALSE, val |-> 0]
UiIdle ==
    /\ progress_bar = 0
    /\ is_error = [t \in Threads |-> FALSE]
    /\ memory_data = [t \in Threads |-> -1]
    /\ rendered = "none"

ChunksIdle ==
    /\ rows = 0
    /\ days = <<>>
    /\ cur_chunk = <<>>
    /\ benched_functions = <<>>

ParseIdle ==
    /\ parse_in = <<>>
    /\ parse_out = NoParse

RestIdle == UiIdle /\ ChunksIdle /\ ParseIdle

MoreIdle ==
    /\ RestIdle
    /\ physical = 1
    /\ num_threads = <<>>
    /\ pool_threads = -1
    /\ trace_file = [t \in Threads |-> None]
    /\ got_back = [t \in Threads |-> None]

NoMemory == [end_ts |-> 0, graph_points |-> <<>>, max_memory |-> 0, num_allocs |-> -1]

\* Nothing of the benchmark has run.
BenchIdle ==
    /\ trace_input = <<>>
    /\ memory = NoMemory
    /\ job = [t \in Threads |-> "none"]
    /\ TimedIdle
    /\ EventsIdle
    /\ MoreIdle

ThreadsIdle ==
    /\ pc = [t \in Threads |-> "idle"]
    /\ op = [t \in Threads |-> NoLocals.op]
    /\ ev = [t \in Threads |-> NoLocals.ev]
    /\ arg = [t \in Threads |-> NoLocals.arg]
    /\ seen_active = [t \in Threads |-> NoLocals.seen_active]
    /\ ret = [t \in Threads |-> NoLocals.ret]
    /\ my_ts = [t \in Threads |-> NoLocals.my_ts]
    /\ skipped = 0
    /\ nCalls = 0

InitBuffer ==
    /\ \E k \in PreFill :
         /\ buffer = PushRange(Buffer_new, 1, k)
         /\ pushed = [i \in 1..k |-> FillEvent(i)]
         /\ grows = IF k > INITIAL_SIZE THEN 1 ELSE 0
    /\ aborted = FALSE
    /\ dropped = FALSE
    /\ clears = 0
    /\ nOps = 0
    /\ realloc_ret = "none"
    /\ \E c \in TracingContexts :
         /\ active = c.active
         /\ output_file = c.output_file
         /\ timestamp = c.timestamp
         /\ files = c.files
    /\ file_access_sync = FALSE
    /\ clock = 0
    /\ ThreadsIdle
    /\ BenchIdle

BufferLive == ~aborted /\ ~dropped /\ nOps < MaxOps

\* push(event), the reallocation (if any) succeeding
Push(event) ==
    /\ BufferLive
    /\ buffer' = Buffer_push(buffer, event)
    /\ pushed' = Append(pushed, event)
    /\ grows' = IF buffer.length = buffer.capacity THEN grows + 1 ELSE grows
    /\ files' = IF buffer.length = buffer.capacity
                THEN HookFiles(Buffer_grow_via(buffer), files)
                ELSE files
    /\ nOps' = nOps + 1
    /\ realloc_ret' = IF buffer.length = buffer.capacity THEN "block" ELSE "none"
    /\ UNCHANGED <<aborted, dropped, clears>>
    /\ UNCHANGED <<active, file_access_sync, output_file, timestamp, clock>>
    /\ UNCHANGED <<thrVars, benchVars>>

\* push(event) on a full buffer, realloc returning null: handle_alloc_error
\* ends the process inside grow(), before anything is assigned.
PushAbort ==
    /\ BufferLive
    /\ buffer.length = buffer.capacity
    /\ aborted' = TRUE
    /\ nOps' = nOps + 1
    /\ realloc_ret' = "null"
    /\ UNCHANGED <<buffer, dropped, pushed, grows, clears>>
    /\ UNCHANGED allocVars
    /\ UNCHANGED <<thrVars, benchVars>>

Clear ==
    /\ BufferLive
    /\ buffer' = Buffer_clear(buffer)
    /\ pushed' = <<>>
    /\ clears' = clears + 1
    /\ nOps' = nOps + 1
    /\ UNCHANGED <<aborted, dropped, grows, realloc_ret>>
    /\ UNCHANGED allocVars
    /\ UNCHANGED <<thrVars, benchVars>>

Drop ==
    /\ BufferLive
    /\ dropped' = TRUE
    /\ files' = HookFiles(Buffer_drop_via(buffer), files)
    /\ nOps' = nOps + 1
    /\ UNCHANGED <<buffer, aborted, pushed, grows, clears, realloc_ret>>
    /\ UNCHANGED <<active, file_access_sync, output_file, timestamp, clock>>
    /\ UNCHANGED <<thrVars, benchVars>>

NextBuffer ==
    \/ \E event \in PushEvents : Push(event)
    \/ PushAbort
    \/ Clear
    \/ Drop

SpecBuffer == InitBuffer /\ [][NextBuffer]_vars

RECURSIVE Pow2(_)
Pow2(n) == IF n = 0 THEN 1 ELSE 2 * Pow2(n - 1)

\* C1: in every state reached by new, push and clear, length <= capacity
\* (and the block holds exactly capacity cells).
C1_LengthWithinCapacity ==
    /\ buffer.length <= buffer.capacity
    /\ Len(buffer.buf) = buffer.capacity

\* a push has filled the buffer to the brim
C1_Witness == nOps > 0 /\ buffer.length = buffer.capacity

\* C2: K pushes onto a fresh Buffer (no clear), K below or beyond the initial
\* capacity, give length = K, and iter yields the K pushed events in push
\* order: a grow loses or reorders none of the events stored before it.
C2_PushesRetrievable ==
    (clears = 0 /\ ~dropped) =>
        /\ buffer.length = Len(pushed)
        /\ Buffer_iter(buffer) = pushed

\* the push that made the buffer grow past its initial capacity has happened
C2_Witness ==
    /\ clears = 0 /\ nOps = 2
    /\ Len(pushed) = INITIAL_SIZE + 1
    /\ buffer.capacity = 2 * INITIAL_SIZE

\* C3: capacity is INITIAL_SIZE on a new Buffer and INITIAL_SIZE * 2^k after
\* k grows; a step changes it only if it is a push on a full buffer, and
\* then to exactly twice its value; any other push and every clear keep it.
C3_CapacityDoubles ==
    /\ [](buffer.capacity = INITIAL_SIZE * Pow2(grows))
    /\ [][\/ buffer'.capacity = buffer.capacity
          \/ /\ buffer.length = buffer.capacity
             /\ buffer'.length = buffer.length + 1
             /\ buffer'.capacity = 2 * buffer.capacity]_vars

\* a second doubling, and a clear that kept the doubled capacity
C3_Witness ==
    /\ nOps >= 2 /\ grows = 2 /\ clears > 0
    /\ buffer.capacity = 4 * INITIAL_SIZE

\* C4: clear sets length to 0 and leaves capacity and the block as they are;
\* right after it iter yields nothing, and from then on iter yields exactly
\* the events pushed since the clear, none from before it.
C4_ClearFrame ==
    /\ [][clears' = clears + 1 =>
            /\ buffer'.length = 0
            /\ buffer'.capacity = buffer.capacity
            /\ buffer'.buf = buffer.buf
            /\ Buffer_iter(buffer') = <<>>]_vars
    /\ []((clears > 0 /\ ~dropped) => Buffer_iter(buffer) = pushed)

\* events pushed after a clear of a grown buffer, an event from before the
\* clear still sitting in the cell behind them
C4_Witness ==
    /\ clears > 0 /\ Len(pushed) >= 1
    /\ buffer.capacity = 2 * INITIAL_SIZE
    /\ buffer.buf[Len(pushed) + 1] # Uninit

\* C5: the event store takes, resizes and gives back its block on the raw
\* System allocator only: whatever the tracing state, a push (growing or
\* not) stores exactly its one event, and neither it nor drop makes the
\* hook record an Alloc or Free event.
C5_StoreBypassesHook ==
    [][nOps' = nOps + 1 =>
         /\ files' = files
         /\ (pushed' # pushed /\ clears' = clears) =>
                /\ buffer'.length = buffer.length + 1
                /\ Buffer_iter(buffer') = Append(Buffer_iter(buffer), pushed'[Len(pushed')])]_vars

\* tracing is active and a push has grown the buffer: the trace file still
\* holds its Start line only
C5_Witness ==
    /\ active /\ output_file # None
    /\ nOps = 2 /\ clears = 0
    /\ buffer.capacity = 2 * INITIAL_SIZE
    /\ buffer.length = INITIAL_SIZE + 1
    /\ files[output_file] = <<Line(EvStart, 0, 0)>>

\* ------------------------------------------------------------------------
\* Spec: one TracingAlloc shared by the threads of the process.  A step is
\* one access to the shared state; a spin iteration whose compare_and_swap
\* fails changes nothing and is a stuttering step.  The locals of a call
\* (op, ev, arg, seen_active, ret, my_ts) end with the call.
\* ------------------------------------------------------------------------
Init ==
    /\ buffer = None
    /\ pushed = <<>>
    /\ grows = 0
    /\ aborted = FALSE
    /\ dropped = FALSE
    /\ clears = 0
    /\ nOps = 0
    /\ realloc_ret = "none"
    /\ active = TracingAlloc_new.active
    /\ file_access_sync = TracingAlloc_new.file_access_sync
    /\ output_file = TracingAlloc_new.output_file
    /\ timestamp = TracingAlloc_new.timestamp
    /\ files = [f \in Files |-> <<>>]
    /\ clock = 0
    /\ ThreadsIdle
    /\ BenchIdle

\* Instant::now(): the clock is monotonic; a reading is the last one or later.
Now == {n \in clock..(clock + 1) : n <= MaxClock}

\* The caller of t enters operation `name` at statement `first`, with the
\* event e and the file f as its arguments.
Enter(t, name, first, e, f) ==
    /\ pc[t] = "idle"
    /\ nCalls < MaxCalls
    /\ nCalls' = nCalls + 1
    /\ pc' = [pc EXCEPT ![t] = first]
    /\ op' = [op EXCEPT ![t] = name]
    /\ ev' = [ev EXCEPT ![t] = e]
    /\ arg' = [arg EXCEPT ![t] = f]
    /\ UNCHANGED <<seen_active, ret, my_ts, skipped>>
    /\ UNCHANGED allocVars
    /\ UNCHANGED <<bufVars, benchVars>>

\* t moves to statement `next`; at "idle" its call has returned.
Goto(t, next) ==
    /\ pc' = [pc EXCEPT ![t] = next]
    /\ IF next = "idle"
       THEN /\ op' = [op EXCEPT ![t] = NoLocals.op]
            /\ ev' = [ev EXCEPT ![t] = NoLocals.ev]
            /\ arg' = [arg EXCEPT ![t] = NoLocals.arg]
            /\ seen_active' = [seen_active EXCEPT ![t] = NoLocals.seen_active]
            /\ ret' = [ret EXCEPT ![t] = NoLocals.ret]
            /\ my_ts' = [my_ts EXCEPT ![t] = NoLocals.my_ts]
       ELSE UNCHANGED <<op, ev, arg, seen_active, ret, my_ts>>
    /\ UNCHANGED nCalls
    /\ UNCHANGED <<bufVars, benchVars>>

\* Mutant of Lock: a plain store(true) that does not look at the old value.
Lock_store_only(t, at, next) ==
    /\ pc[t] = at
    /\ file_access_sync' = TRUE
    /\ Goto(t, next)
    /\ UNCHANGED <<active, output_file, timestamp, files, clock, skipped>>

\* while compare_and_swap(false, true) != false {}: the swap succeeding
Lock(t, at, next) ==
    /\ pc[t] = at
    /\ file_access_sync = FALSE
    /\ file_access_sync' = TRUE
    /\ Goto(t, next)
    /\ UNCHANGED <<active, output_file, timestamp, files, clock, skipped>>

\* file_access_sync.store(false)
Unlock(t, at, next) ==
    /\ pc[t] = at
    /\ file_access_sync' = FALSE
    /\ Goto(t, next)
    /\ UNCHANGED <<active, output_file, timestamp, files, clock, skipped>>

\* ---- enable_tracing ----
Call_enable_tracing(t) == Enter(t, "enable_tracing", "en_cas", EvStart, None)

EnableCas(t) == Lock(t, "en_cas", "en_ts")

\* timestamp = Some(Instant::now())
EnableTs(t) ==
    /\ pc[t] = "en_ts"
    /\ \E now \in Now : clock' = now
    /\ timestamp' = Some(clock')
    /\ pc' = [pc EXCEPT ![t] = "en_unlock"]
    /\ my_ts' = [my_ts EXCEPT ![t] = Some(clock')]
    /\ UNCHANGED <<op, ev, arg, seen_active, ret, skipped, nCalls>>
    /\ UNCHANGED <<active, file_access_sync, output_file, files>>
    /\ UNCHANGED <<bufVars, benchVars>>

\* the lock is released, then write_ev(Event::Start) is entered
EnableUnlock(t) == Unlock(t, "en_unlock", "we_cas")

\* active.store(true)
EnableStore(t) ==
    /\ pc[t] = "en_store"
    /\ active' = TRUE
    /\ Goto(t, "idle")
    /\ UNCHANGED <<file_access_sync, output_file, timestamp, files, clock, skipped>>

\* ---- disable_tracing ----
Call_disable_tracing(t) == Enter(t, "disable_tracing", "we_cas", EvEnd, None)

\* active.store(false)
DisableStore(t) ==
    /\ pc[t] = "dis_store"
    /\ active' = FALSE
    /\ Goto(t, "idle")
    /\ UNCHANGED <<file_access_sync, output_file, timestamp, files, clock, skipped>>

\* ---- write_ev ----
WriteEvCas(t) == Lock(t, "we_cas", "we_body")

\* the if-let and the writeln!, the write succeeding (or nothing to write);
\* ts.elapsed() reads the clock
WriteEvBody(t) ==
    /\ pc[t] = "we_body"
    /\ \E now \in Now : clock' = now
    /\ files' = WriteEvFiles(files, output_file, timestamp, clock', ev[t])
    /\ Goto(t, "we_unlock")
    /\ UNCHANGED <<active, file_access_sync, output_file, timestamp, skipped>>

\* the writeln! returning Err: unwrap() panics, with the lock still taken
WriteEvFail(t) ==
    /\ pc[t] = "we_body"
    /\ output_file # None /\ timestamp # NoInstant
    /\ Goto(t, "panicked")
    /\ UNCHANGED <<skipped>>
    /\ UNCHANGED allocVars

\* Where write_ev returns to: the statement after the call in its caller
\* (alloc returns res, dealloc calls inner.dealloc and returns).
AfterWriteEv(name) ==
    CASE name = "enable_tracing"  -> "en_store"
      [] name = "disable_tracing" -> "dis_store"
      [] name = "alloc"           -> "idle"
      [] name = "dealloc"         -> "idle"

WriteEvUnlock(t) == Unlock(t, "we_unlock", AfterWriteEv(op[t]))

\* ---- GlobalAlloc::alloc / dealloc ----
\* Mutant of AfterLoad: the event is recorded whatever the flag says.
AfterLoad_always(flag) == "we_cas"

\* if self.active.load(): write_ev is entered, or the call returns.
AfterLoad(flag) == IF flag THEN "we_cas" ELSE "idle"

\* self.active.load(SeqCst) and the branch on it
LoadActive(t, at) ==
    /\ pc[t] = at
    /\ seen_active' = [seen_active EXCEPT ![t] = active]
    /\ pc' = [pc EXCEPT ![t] = AfterLoad(active)]
    /\ IF AfterLoad(active) = "idle"
       THEN /\ op' = [op EXCEPT ![t] = NoLocals.op]
            /\ ev' = [ev EXCEPT ![t] = NoLocals.ev]
            /\ skipped' = IF output_file # None /\ timestamp # NoInstant
                          THEN skipped + 1 ELSE skipped
       ELSE UNCHANGED <<op, ev, skipped>>
    /\ UNCHANGED <<arg, ret, my_ts, nCalls>>
    /\ UNCHANGED allocVars
    /\ UNCHANGED <<bufVars, benchVars>>

\* inner.alloc(layout) gives the pointer, which is the thread's own; the
\* next shared access is the load of active.
Call_alloc(t, size) == Enter(t, "alloc", "al_load", Event("Alloc", 1, size), None)

AllocLoad(t) == LoadActive(t, "al_load")

Call_dealloc(t, size) == Enter(t, "dealloc", "de_load", Event("Free", 1, size), None)

DeallocLoad(t) == LoadActive(t, "de_load")

\* ---- set_file / clear_file ----
\* A File is owned: the one handed to set_file is neither installed nor in
\* the hands of another call.
Call_set_file(t, f) ==
    /\ f # output_file
    /\ \A u \in Threads : arg[u] # f /\ ret[u] # f
    /\ Enter(t, "set_file", "sf_cas", EvStart, f)

SetFileCas(t) == Lock(t, "sf_cas", "sf_replace")

\* old_file = fd_ptr.replace(Some(file))
SetFileReplace(t) ==
    /\ pc[t] = "sf_replace"
    /\ ret' = [ret EXCEPT ![t] = output_file]
    /\ output_file' = arg[t]
    /\ pc' = [pc EXCEPT ![t] = "sf_unlock"]
    /\ arg' = [arg EXCEPT ![t] = None]
    /\ UNCHANGED <<op, ev, seen_active, my_ts, skipped, nCalls>>
    /\ UNCHANGED <<active, file_access_sync, timestamp, files, clock>>
    /\ UNCHANGED <<bufVars, benchVars>>

SetFileUnlock(t) == Unlock(t, "sf_unlock", "idle")

Call_clear_file(t) == Enter(t, "clear_file", "cf_cas", EvStart, None)

ClearFileCas(t) == Lock(t, "cf_cas", "cf_replace")

\* Mutant of ClearFileReplace: taking the file away also switches tracing off.
ClearFileReplace_disables(t) ==
    /\ pc[t] = "cf_replace"
    /\ ret' = [ret EXCEPT ![t] = output_file]
    /\ output_file' = None
    /\ active' = FALSE
    /\ pc' = [pc EXCEPT ![t] = "cf_unlock"]
    /\ UNCHANGED <<op, ev, arg, seen_active, my_ts, skipped, nCalls>>
    /\ UNCHANGED <<file_access_sync, timestamp, files, clock>>
    /\ UNCHANGED <<bufVars, benchVars>>

\* old_file = fd_ptr.replace(None)
ClearFileReplace(t) ==
    /\ pc[t] = "cf_replace"
    /\ ret' = [ret EXCEPT ![t] = output_file]
    /\ output_file' = None
    /\ pc' = [pc EXCEPT ![t] = "cf_unlock"]
    /\ UNCHANGED <<op, ev, arg, seen_active, my_ts, skipped, nCalls>>
    /\ UNCHANGED <<active, file_access_sync, timestamp, files, clock>>
    /\ UNCHANGED <<bufVars, benchVars>>

ClearFileUnlock(t) == Unlock(t, "cf_unlock", "idle")

Next ==
    \E t \in Threads :
         \/ Call_enable_tracing(t) \/ EnableCas(t) \/ EnableTs(t)
         \/ EnableUnlock(t) \/ EnableStore(t)
         \/ Call_disable_tracing(t) \/ DisableStore(t)
         \/ WriteEvCas(t) \/ WriteEvBody(t) \/ WriteEvFail(t) \/ WriteEvUnlock(t)
         \/ \E size \in Sizes : Call_alloc(t, size) \/ Call_dealloc(t, size)
         \/ AllocLoad(t) \/ DeallocLoad(t)
         \/ \E f \in Files : Call_set_file(t, f)
         \/ SetFileCas(t) \/ SetFileReplace(t) \/ SetFileUnlock(t)
         \/ Call_clear_file(t)
         \/ ClearFileCas(t) \/ ClearFileReplace(t) \/ ClearFileUnlock(t)

Spec == Init /\ [][Next]_vars

\* ------------------------------------------------------------------------
\* Properties of the TracingAlloc (under Spec)
\* ------------------------------------------------------------------------
InWriteEv(t) == pc[t] \in {"we_cas", "we_body", "we_unlock"}

\* t takes a step
Steps(t) == pc'[t] # pc[t]

\* t executes the body of write_ev
Writes(t) == pc[t] = "we_body" /\ pc'[t] = "we_unlock"

\* The symbols of the lines of a trace file.
Symbols(f) == [i \in 1..Len(files[f]) |-> files[f][i].symbol]

\* The allocator is Idle: the flag is off and no enable_tracing or
\* disable_tracing call is in progress.
Idle == ~active /\ \A t \in Threads : op[t] \notin {"enable_tracing", "disable_tracing"}

\* C6: alloc and dealloc record their event only if the load of active
\* returned true: a thread is inside write_ev for alloc/dealloc only after
\* reading true, and a call that reads false returns at once, the trace
\* files untouched; a trace file changes only in the body of write_ev.
C6_RecordOnlyIfActiveRead ==
    /\ [](\A t \in Threads :
            (op[t] \in {"alloc", "dealloc"} /\ InWriteEv(t)) => seen_active[t])
    /\ [][\A t \in Threads :
            (pc[t] \in {"al_load", "de_load"} /\ ~active /\ Steps(t)) =>
                (pc'[t] = "idle" /\ files' = files)]_vars
    /\ [][files' # files => \E t \in Threads : Writes(t)]_vars

\* after Start and End, with the file still installed, an alloc or dealloc
\* found the flag off and recorded nothing
C6_Witness ==
    /\ ~active /\ skipped >= 1
    /\ output_file # None
    /\ Symbols(output_file) = <<"S", "E">>
    /\ \A t \in Threads : pc[t] = "idle"

\* C7: active is false initially, turns true only in the store of
\* enable_tracing and false only in the store of disable_tracing; no step of
\* alloc, dealloc, set_file, clear_file or write_ev changes it.
C7_ActiveTwoState ==
    /\ ~active
    /\ [][(active' /\ ~active) =>
            \E t \in Threads : op[t] = "enable_tracing" /\ pc[t] = "en_store" /\ Steps(t)]_vars
    /\ [][(~active' /\ active) =>
            \E t \in Threads : op[t] = "disable_tracing" /\ pc[t] = "dis_store" /\ Steps(t)]_vars
    /\ [][\A t \in Threads :
            (Steps(t) /\ (InWriteEv(t) \/ op[t] \in {"alloc", "dealloc", "set_file", "clear_file"}))
                => active' = active]_vars

\* a whole cycle: tracing was switched on, an allocation was recorded, tracing
\* was switched off, and the file was taken back
C7_Witness ==
    /\ ~active
    /\ \E f \in Files : Symbols(f) = <<"S", "A", "E">>
    /\ output_file = None
    /\ \A t \in Threads : pc[t] = "idle"

\* C8: enable_tracing stores start_time, then records Start, stamped with the
\* time elapsed since the start_time this call stored, then sets active.
C8_StartStampedFromOwnStart ==
    /\ [](\A t \in Threads :
            (op[t] = "enable_tracing" /\ (InWriteEv(t) \/ pc[t] = "en_store"))
                => my_ts[t] # NoInstant)
    /\ [][\A t \in Threads :
            (op[t] = "enable_tracing" /\ Writes(t) /\ output_file # None) =>
                files'[output_file] =
                    Append(files[output_file],
                           [symbol |-> "S", elapsed |-> clock' - my_ts[t][1], size |-> 0])]_vars
    /\ [][(active' /\ ~active) =>
            \E t \in Threads : op[t] = "enable_tracing" /\ pc[t] = "en_store"]_vars

\* C9: disable_tracing sets active to false only after write_ev(End) has
\* returned, and while the allocator is Idle afterwards no event is recorded.
C9_NoEventOnceDisabled ==
    /\ [][(~active' /\ active) =>
            \E t \in Threads : op[t] = "disable_tracing" /\ pc[t] = "dis_store"]_vars
    /\ [][(Idle /\ Idle') => files' = files]_vars

\* C10: an alloc or dealloc that finds the flag off (tracing disabled)
\* returns without recording, one that finds it on goes on to record; the
\* write of enable_tracing appends a Start line; and a step leaves every
\* trace file as it is or appends one line to one of them: the earlier lines
\* stay, none is written again.
C10_ResumeAppendsOnly ==
    /\ [][\A t \in Threads :
            (pc[t] \in {"al_load", "de_load"} /\ Steps(t)) =>
                IF active THEN pc'[t] = "we_cas" /\ skipped' = skipped
                ELSE pc'[t] = "idle" /\ files' = files]_vars
    /\ [][\A t \in Threads :
            (op[t] = "enable_tracing" /\ Writes(t) /\ output_file # None) =>
                /\ Len(files'[output_file]) = Len(files[output_file]) + 1
                /\ files'[output_file][Len(files'[output_file])].symbol = "S"]_vars
    /\ [][\A f \in Files :
            \/ files'[f] = files[f]
            \/ /\ Len(files'[f]) = Len(files[f]) + 1
               /\ SubSeq(files'[f], 1, Len(files[f])) = files[f]
               /\ \A g \in Files \ {f} : files'[g] = files[g]]_vars

\* a session, an allocation made after it that recorded nothing, and the
\* fresh Start of the next session
C10_Witness ==
    /\ active /\ skipped >= 1
    /\ output_file # None
    /\ Symbols(output_file) = <<"S", "E", "S">>
    /\ \A t \in Threads : pc[t] = "idle"

\* ------------------------------------------------------------------------
\* Two jobs on the pool, sharing the one TracingAlloc (under SpecJobs)
\* ------------------------------------------------------------------------
\* The pool runs one job per worker. Job t1 is in its memory-traced run and
\* is the only one to install a file and to switch tracing on and off; job
\* t2 is in its own untraced runs of its function: it only allocates and
\* frees.
JobRoles ==
    /\ op'["t1"] \notin {"alloc", "dealloc"}
    /\ op'["t2"] \in {"none", "alloc", "dealloc"}

NextJobs == Next /\ JobRoles

SpecJobs == Init /\ [][NextJobs]_vars

\* C11: tracing state and trace are confined to the thread that collects:
\* with t1 tracing and t2 never having enabled tracing, no alloc/dealloc of
\* t2 is ever recorded (t2 never enters write_ev), whatever t1 enables or
\* disables, and no Alloc or Free line ever appears in the trace t1 collects.
C11_TraceThreadConfined ==
    /\ \A f \in Files : \A i \in 1..Len(files[f]) : files[f][i].symbol \notin {"A", "F"}
    /\ ~InWriteEv("t2")

\* C12: tracing bookkeeping never makes an allocation fail or abort: a call
\* of alloc never ends in a panic, also when the write of the event record
\* returns an error; it goes on to return the pointer of the system
\* allocator.
C12_AllocNeverAborts ==
    \A t \in Threads : ~(op[t] = "alloc" /\ pc[t] = "panicked")

\* ------------------------------------------------------------------------
\* SpecGrow: one Buffer grown to the limits of usize.
\* The block is too large to spell out: a usize value is kept as 2^e + k with
\* k small, and of the block only the cell written last.
\* ------------------------------------------------------------------------
\* usize and isize are 64 bits wide; an Event is a tag and two usize fields.
USIZE_BITS == 64
SizeOfEvent == 24

\* the usize value 2^e + k
U(e, k) == [e |-> e, k |-> k]
Zero == U(0, -1)

\* n + 1, for a length
Succ(n) == U(n.e, n.k + 1)

RECURSIVE Log2(_)
Log2(n) == IF n <= 1 THEN 0 ELSE 1 + Log2(n \div 2)

NullPtr == "null"

\* Layout::array::<Event>(n) is Ok, for n = 2^e: SizeOfEvent * 2^e does not
\* exceed isize::MAX = 2^(USIZE_BITS - 1) - 1.  Both sides are divided by
\* 2^(USIZE_BITS - 31) to stay within the integers of the checker.
Layout_array_fits(n) ==
    LET s == USIZE_BITS - 31
    IN  IF n.e < s THEN TRUE
        ELSE Pow2(n.e - s) <= (Pow2(30) - 1) \div SizeOfEvent

\* capacity.checked_mul(2), for capacity = 2^e: None (ok false) on overflow
\* of usize
checked_mul_2(n) ==
    IF n.e + 1 >= USIZE_BITS THEN [ok |-> FALSE, val |-> Zero]
    ELSE [ok |-> TRUE, val |-> U(n.e + 1, n.k)]

\* What System.realloc may return for the block at ptr: null, the block grown
\* in place, or a new block.
SystemReallocRets(ptr) == {NullPtr, ptr, IF ptr = "p1" THEN "p2" ELSE "p1"}

\* Buffer::new, the allocation succeeding
Buffer_new_usize ==
    [capacity |-> U(Log2(INITIAL_SIZE), 0), length |-> Zero, ptr |-> "p1",
     last |-> [at |-> Zero, event |-> Uninit]]

\* A fatal error (a failed expect, or handle_alloc_error) leaves b as it is
\* at that statement.
Fatal(b) == [fatal |-> TRUE, b |-> b]

\* Mutant of Buffer_grow_checked: the pointer is stored before it is tested
\* for null.
Buffer_grow_store_first(b, res) ==
    LET new_capacity == checked_mul_2(b.capacity)
    IN  IF ~Layout_array_fits(b.capacity) THEN Fatal(b)
        ELSE IF ~new_capacity.ok THEN Fatal(b)
        ELSE IF ~Layout_array_fits(new_capacity.val) THEN Fatal(b)
        ELSE IF res = NullPtr THEN Fatal([b EXCEPT !.ptr = res])
        ELSE [fatal |-> FALSE,
              b |-> [b EXCEPT !.ptr = res, !.capacity = new_capacity.val]]

\* Buffer::grow, statement by statement; res is what System.realloc returns.
Buffer_grow_checked(b, res) ==
    LET new_capacity == checked_mul_2(b.capacity)
    IN  IF ~Layout_array_fits(b.capacity) THEN Fatal(b)
        ELSE IF ~new_capacity.ok THEN Fatal(b)
        ELSE IF ~Layout_array_fits(new_capacity.val) THEN Fatal(b)
        ELSE IF res = NullPtr THEN Fatal(b)
        ELSE [fatal |-> FALSE,
              b |-> [b EXCEPT !.ptr = res, !.capacity = new_capacity.val]]

\* Whether grow gets as far as calling System.realloc.
Buffer_grow_reallocs(b) ==
    /\ Layout_array_fits(b.capacity)
    /\ checked_mul_2(b.capacity).ok
    /\ Layout_array_fits(checked_mul_2(b.capacity).val)

\* Buffer::push
Buffer_push_checked(b, event, res) ==
    LET g == IF b.length = b.capacity THEN Buffer_grow_checked(b, res)
             ELSE [fatal |-> FALSE, b |-> b]
    IN  IF g.fatal THEN g
        ELSE [fatal |-> FALSE,
              b |-> [g.b EXCEPT !.last = [at |-> g.b.length, event |-> event],
                                !.length = Succ(g.b.length)]]

InitGrow ==
    /\ buffer = Buffer_new_usize
    /\ pushed = <<>>
    /\ grows = 0
    /\ aborted = FALSE
    /\ dropped = FALSE
    /\ clears = 0
    /\ nOps = 0
    /\ realloc_ret = "none"
    /\ active = TracingAlloc_new.active
    /\ file_access_sync = TracingAlloc_new.file_access_sync
    /\ output_file = TracingAlloc_new.output_file
    /\ timestamp = TracingAlloc_new.timestamp
    /\ files = [f \in Files |-> <<>>]
    /\ clock = 0
    /\ ThreadsIdle
    /\ BenchIdle

\* push(event) onto a buffer that is full or one short of full
PushChecked(event) ==
    /\ ~aborted
    /\ buffer.length.e = buffer.capacity.e /\ buffer.length.k \in {-1, 0}
    /\ \E res \in SystemReallocRets(buffer.ptr) :
         LET full == buffer.length = buffer.capacity
             r == Buffer_push_checked(buffer, event, res)
         IN  /\ full \/ res = buffer.ptr
             /\ (full /\ ~Buffer_grow_reallocs(buffer)) => res = buffer.ptr
             /\ buffer' = r.b
             /\ aborted' = r.fatal
             /\ realloc_ret' = IF full /\ Buffer_grow_reallocs(buffer)
                               THEN res ELSE "none"
             /\ grows' = IF full /\ ~r.fatal THEN grows + 1 ELSE grows
    /\ UNCHANGED <<dropped, pushed, clears, nOps>>
    /\ UNCHANGED allocVars
    /\ UNCHANGED <<thrVars, benchVars>>

\* A run of pushes of FillEvent, none of which finds the buffer full, that
\* leaves it one short of full.
PushRun ==
    /\ ~aborted
    /\ ~(buffer.length.e = buffer.capacity.e /\ buffer.length.k \in {-1, 0})
    /\ buffer' = [buffer EXCEPT
                    !.length = U(buffer.capacity.e, -1),
                    !.last = [at |-> U(buffer.capacity.e, -2), event |-> FillEvent(0)]]
    /\ realloc_ret' = "none"
    /\ UNCHANGED <<aborted, dropped, pushed, grows, clears, nOps>>
    /\ UNCHANGED allocVars
    /\ UNCHANGED <<thrVars, benchVars>>

NextGrow ==
    \/ \E event \in PushEvents : PushChecked(event)
    \/ PushRun

SpecGrow == InitGrow /\ [][NextGrow]_vars

\* C13: a push onto a full Buffer whose doubled capacity does not fit usize
\* or the array layout, or whose realloc returns null, ends in the fatal
\* error with capacity, length, pointer and cells as they were; a push that
\* goes on has a non-null block of exactly twice the capacity, which fits,
\* and has written its event at the old length.
C13_GrowFailsBeforeWriting ==
    [][(buffer.length = buffer.capacity /\ ~aborted) =>
        IF \/ ~checked_mul_2(buffer.capacity).ok
           \/ ~Layout_array_fits(U(buffer.capacity.e + 1, 0))
           \/ realloc_ret' = NullPtr
        THEN aborted' /\ buffer' = buffer
        ELSE /\ ~aborted'
             /\ buffer'.capacity = U(buffer.capacity.e + 1, 0)
             /\ buffer'.ptr = realloc_ret' /\ buffer'.ptr # NullPtr
             /\ buffer'.length = Succ(buffer.length)
             /\ buffer'.last.at = buffer.length]_vars

\* the push onto the full buffer of the largest capacity that fits has ended
\* in the fatal error without calling realloc, after an earlier grow
C13_Witness ==
    /\ aborted
    /\ buffer.length = buffer.capacity
    /\ ~Layout_array_fits(U(buffer.capacity.e + 1, 0))
    /\ realloc_ret = "none"
    /\ grows > 0

\* ------------------------------------------------------------------------
\* SpecReplay: get_data applied to the text of a trace file.
\* A line is kept as its three whitespace-separated parts; Unparsable stands
\* for a part that is missing or is not a number.
\* ------------------------------------------------------------------------
MaxLines == 4
Unparsable == -1

\* The lines a trace file may hold: those write_ev writes, and a line that
\* get_data cannot parse.
TraceLines(ts) ==
    {[symbol |-> "A", elapsed |-> ts, size |-> n] : n \in 1..2}
    \cup {[symbol |-> "F", elapsed |-> ts, size |-> n] : n \in 1..2}
    \cup {[symbol |-> "S", elapsed |-> ts, size |-> 0],
          [symbol |-> "E", elapsed |-> ts, size |-> 0],
          [symbol |-> "A", elapsed |-> ts, size |-> Unparsable]}

\* The texts of at most MaxLines lines, the i-th line stamped i.
TraceInputs ==
    UNION {[1..n -> TraceLines(0)] : n \in 0..MaxLines}

Stamped(tr) == [i \in 1..Len(tr) |-> [tr[i] EXCEPT !.elapsed = i]]

\* Mutant of ParseLine: a Start line is taken for an allocation of no bytes.
ParseLine_start_allocs(line) ==
    LET ts_ok == line.elapsed # Unparsable
        size_ok == line.size # Unparsable
    IN  CASE line.symbol = "A" /\ ts_ok /\ size_ok ->
               [ok |-> TRUE, kind |-> "A", size |-> line.size, ts |-> line.elapsed]
          [] line.symbol = "F" /\ ts_ok /\ size_ok ->
               [ok |-> TRUE, kind |-> "F", size |-> 0 - line.size, ts |-> line.elapsed]
          [] line.symbol = "S" /\ ts_ok ->
               [ok |-> TRUE, kind |-> "A", size |-> 0, ts |-> line.elapsed]
          [] line.symbol = "E" /\ ts_ok ->
               [ok |-> TRUE, kind |-> "E", size |-> 0, ts |-> line.elapsed]
          [] OTHER ->
               [ok |-> FALSE, kind |-> "?", size |-> 0, ts |-> 0]

\* Mutant of ParseLine: a Free line adds its size.
ParseLine_free_adds(line) ==
    LET ts_ok == line.elapsed # Unparsable
        size_ok == line.size # Unparsable
    IN  CASE line.symbol \in {"A", "F"} /\ ts_ok /\ size_ok ->
               [ok |-> TRUE, kind |-> line.symbol, size |-> line.size, ts |-> line.elapsed]
          [] line.symbol \in {"S", "E"} /\ ts_ok ->
               [ok |-> TRUE, kind |-> line.symbol, size |-> 0, ts |-> line.elapsed]
          [] OTHER ->
               [ok |-> FALSE, kind |-> "?", size |-> 0, ts |-> 0]

\* The match on the three parts of a line: the signed size and the timestamp,
\* or the line is skipped.
ParseLine(line) ==
    LET ts_ok == line.elapsed # Unparsable
        size_ok == line.size # Unparsable
    IN  CASE line.symbol = "A" /\ ts_ok /\ size_ok ->
               [ok |-> TRUE, kind |-> "A", size |-> line.size, ts |-> line.elapsed]
          [] line.symbol = "F" /\ ts_ok /\ size_ok ->
               [ok |-> TRUE, kind |-> "F", size |-> 0 - line.size, ts |-> line.elapsed]
          [] line.symbol = "S" /\ ts_ok ->
               [ok |-> TRUE, kind |-> "S", size |-> 0, ts |-> line.elapsed]
          [] line.symbol = "E" /\ ts_ok ->
               [ok |-> TRUE, kind |-> "E", size |-> 0, ts |-> line.elapsed]
          [] OTHER ->
               [ok |-> FALSE, kind |-> "?", size |-> 0, ts |-> 0]

Max(a, b) == IF a >= b THEN a ELSE b

\* The locals of get_data before the loop.
GetDataStart ==
    [points |-> <<>>, cur_bytes |-> 0, prev_bytes |-> 0, end_ts |-> 0,
     max_bytes |-> 0, num_allocs |-> 0]

\* alloc_count of the replay: incremented on every Alloc event.
CountAlloc(n, kind) == IF kind = "A" THEN n + 1 ELSE n

\* One turn of the loop of get_data.
\* Mutant of GetDataStep: max_bytes follows cur_bytes down as well as up.
GetDataStep_follows_cur(st, line) ==
    LET p == ParseLine(line)
        cur == st.cur_bytes + p.size
    IN  IF ~p.ok THEN st
        ELSE [points |-> st.points \o <<<<p.ts, st.prev_bytes>>, <<p.ts, cur>>>>,
              cur_bytes |-> cur,
              prev_bytes |-> cur,
              end_ts |-> IF p.kind = "E" THEN p.ts ELSE st.end_ts,
              max_bytes |-> cur,
              num_allocs |-> CountAlloc(st.num_allocs, p.kind)]

\* Mutant of GetDataStep: prev_bytes is not brought up to date.
GetDataStep_stale_prev(st, line) ==
    LET p == ParseLine(line)
        cur == st.cur_bytes + p.size
    IN  IF ~p.ok THEN st
        ELSE [points |-> st.points \o <<<<p.ts, st.prev_bytes>>, <<p.ts, cur>>>>,
              cur_bytes |-> cur,
              prev_bytes |-> st.prev_bytes,
              end_ts |-> IF p.kind = "E" THEN p.ts ELSE st.end_ts,
              max_bytes |-> Max(st.max_bytes, cur),
              num_allocs |-> CountAlloc(st.num_allocs, p.kind)]

GetDataStep(st, line) ==
    LET p == ParseLine(line)
        cur == st.cur_bytes + p.size
    IN  IF ~p.ok THEN st
        ELSE [points |-> st.points \o <<<<p.ts, st.prev_bytes>>, <<p.ts, cur>>>>,
              cur_bytes |-> cur,
              prev_bytes |-> cur,
              end_ts |-> IF p.kind = "E" THEN p.ts ELSE st.end_ts,
              max_bytes |-> Max(st.max_bytes, cur),
              num_allocs |-> CountAlloc(st.num_allocs, p.kind)]

RECURSIVE GetDataLoop(_, _, _)
GetDataLoop(st, lines, i) ==
    IF i > Len(lines) THEN st
    ELSE GetDataLoop(GetDataStep(st, lines[i]), lines, i + 1)

\* max_bytes as usize: the isize is taken as the usize of the same bits, a
\* negative x becoming 2^USIZE_BITS + x.  2^USIZE_BITS is beyond the
\* integers of the checker and is stood for by 2^30.
as_usize(x) == IF x >= 0 THEN x ELSE Pow2(30) + x

\* get_data(trace_input): the MemoryData
get_data(lines) ==
    LET st == GetDataLoop(GetDataStart, lines, 1)
    IN  [end_ts |-> st.end_ts, graph_points |-> st.points,
         max_memory |-> as_usize(st.max_bytes), num_allocs |-> st.num_allocs]

InitReplay ==
    /\ \E tr \in TraceInputs : trace_input = Stamped(tr)
    /\ memory = NoMemory
    /\ buffer = None
    /\ pushed = <<>>
    /\ grows = 0
    /\ aborted = FALSE
    /\ dropped = FALSE
    /\ clears = 0
    /\ nOps = 0
    /\ realloc_ret = "none"
    /\ active = TracingAlloc_new.active
    /\ file_access_sync = TracingAlloc_new.file_access_sync
    /\ output_file = TracingAlloc_new.output_file
    /\ timestamp = TracingAlloc_new.timestamp
    /\ files = [f \in Files |-> <<>>]
    /\ clock = 0
    /\ ThreadsIdle
    /\ job = [t \in Threads |-> "none"]
    /\ TimedIdle
    /\ EventsIdle
    /\ MoreIdle

GetData ==
    /\ memory = NoMemory
    /\ memory' = get_data(trace_input)
    /\ UNCHANGED <<trace_input, job, timedVars, eventVars, moreVars>>
    /\ UNCHANGED <<bufVars, allocVars, thrVars>>

NextReplay == GetData

SpecReplay == InitReplay /\ [][NextReplay]_vars

\* The events of the replayed log, and the bytes outstanding after its first
\* k events.
IsEvent(line) == line.elapsed # Unparsable /\ line.size # Unparsable

RECURSIVE Outstanding(_, _)
Outstanding(lines, k) ==
    IF k = 0 THEN 0
    ELSE Outstanding(lines, k - 1)
           + (CASE lines[k].symbol = "A" -> lines[k].size
                [] lines[k].symbol = "F" -> 0 - lines[k].size
                [] OTHER -> 0)

NoFreeBeyondOutstanding(lines) ==
    /\ \A i \in 1..Len(lines) : IsEvent(lines[i])
    /\ \A k \in 0..Len(lines) : Outstanding(lines, k) >= 0

\* C14: for a log in which no Free releases more than is outstanding,
\* max_memory is at least the bytes outstanding after every prefix of the
\* log, and is the bytes outstanding after one of them.
C14_MaxMemoryIsPeak ==
    (memory # NoMemory /\ NoFreeBeyondOutstanding(trace_input)) =>
        /\ \A k \in 0..Len(trace_input) :
              memory.max_memory >= Outstanding(trace_input, k)
        /\ \E k \in 0..Len(trace_input) :
              memory.max_memory = Outstanding(trace_input, k)

\* a log whose peak lies before its end: bytes were freed after it
C14_Witness ==
    /\ memory # NoMemory
    /\ NoFreeBeyondOutstanding(trace_input)
    /\ memory.max_memory >= 3
    /\ Outstanding(trace_input, Len(trace_input)) < memory.max_memory

IsReplayed(line) ==
    /\ line.symbol \in {"A", "F", "S", "E"}
    /\ line.elapsed # Unparsable
    /\ line.symbol \in {"A", "F"} => line.size # Unparsable

\* C29: the replay gives two graph points per replayed event, (t, bytes
\* before the event) and then (t, bytes after it); so there are twice as
\* many points as events, the second point of an event and the first point
\* of the next have the same y, and the first point has y = 0.
C29_TwoGraphPointsPerEvent ==
    memory # NoMemory =>
        LET evs == SelectSeq(trace_input, IsReplayed)
            gp  == memory.graph_points
        IN  /\ Len(gp) = 2 * Len(evs)
            /\ \A i \in 1..Len(evs) :
                  /\ gp[2 * i - 1] = <<evs[i].elapsed, Outstanding(evs, i - 1)>>
                  /\ gp[2 * i] = <<evs[i].elapsed, Outstanding(evs, i)>>
                  /\ i < Len(evs) => gp[2 * i][2] = gp[2 * i + 1][2]
            /\ Len(evs) > 0 => gp[1][2] = 0

\* three events replayed and one line skipped, the bytes going up and down
C29_Witness ==
    /\ memory # NoMemory
    /\ Len(memory.graph_points) = 6
    /\ Len(trace_input) = 4
    /\ memory.graph_points[2][2] > 0
    /\ memory.graph_points[6][2] < memory.graph_points[2][2]

\* C38: the replay never reports a negative or wrapped high-water mark:
\* max_memory is the largest number of bytes outstanding after a prefix of
\* the replayed events, the empty prefix (0 bytes) included, so it is >= 0
\* also for a log whose Free events release more than was allocated.
C38_MaxMemoryNeverNegative ==
    memory # NoMemory =>
        LET evs == SelectSeq(trace_input, IsReplayed)
        IN  /\ memory.max_memory >= 0
            /\ \A k \in 0..Len(evs) : memory.max_memory >= Outstanding(evs, k)
            /\ \E k \in 0..Len(evs) : memory.max_memory = Outstanding(evs, k)

\* a log that frees more than it allocated: the running counter ends below
\* 0, after having been above it
C38_Witness ==
    /\ memory # NoMemory
    /\ Len(memory.graph_points) >= 4
    /\ memory.graph_points[Len(memory.graph_points)][2] < 0
    /\ memory.max_memory > 0

\* ------------------------------------------------------------------------
\* SpecTraced: benchmark() of one job on worker t1 while the job of worker
\* t2 runs its own function, both on the one TracingAlloc.  A call of the
\* TracingAlloc runs here without another thread in between (one of the
\* schedules of Spec).
\* ------------------------------------------------------------------------
\* The function under benchmark allocates PartBytes once and frees them.
PartBytes == CHOOSE n \in Sizes : TRUE

\* benchmark() and bench_function(), statement after statement: the file is
\* installed, the function is run untraced, then traced, then timed, the
\* file is taken back and replayed.
JobScript ==
    [set_file |-> "warm_alloc", warm_alloc |-> "warm_free", warm_free |-> "enable",
     enable |-> "traced_alloc", traced_alloc |-> "traced_free",
     traced_free |-> "disable", disable |-> "timed_alloc",
     timed_alloc |-> "timed_free", timed_free |-> "clear_file",
     clear_file |-> "done",
     estimate |-> "total_runs", total_runs |-> "timed_loop",
     timed_loop |-> "reported",
     other_alloc |-> "other_free", other_free |-> "other_alloc"]

JobGoto(t) == job' = [job EXCEPT ![t] = JobScript[job[t]]]

\* alloc.set_file(trace_file): a file just created or truncated
JobSetFile(t) ==
    /\ job[t] = "set_file"
    /\ \E f \in Files :
         /\ files[f] = <<>> /\ output_file # f
         /\ output_file' = f
         /\ trace_file' = [trace_file EXCEPT ![t] = f]
    /\ JobGoto(t)
    /\ UNCHANGED <<active, file_access_sync, timestamp, files, clock>>
    /\ UNCHANGED <<trace_input, memory, timedVars, eventVars, poolVars, got_back, restVars>>
    /\ UNCHANGED <<bufVars, thrVars>>

\* alloc.enable_tracing()
JobEnable(t) ==
    /\ job[t] = "enable"
    /\ \E now \in Now :
         /\ timestamp' = Some(now)
         /\ clock' = now
         /\ files' = WriteEvFiles(files, output_file, Some(now), now, EvStart)
    /\ active' = TRUE
    /\ JobGoto(t)
    /\ UNCHANGED <<file_access_sync, output_file>>
    /\ UNCHANGED <<trace_input, memory, timedVars, eventVars, moreVars>>
    /\ UNCHANGED <<bufVars, thrVars>>

\* alloc.disable_tracing()
JobDisable(t) ==
    /\ job[t] = "disable"
    /\ \E now \in Now :
         /\ clock' = now
         /\ files' = WriteEvFiles(files, output_file, timestamp, now, EvEnd)
    /\ active' = FALSE
    /\ JobGoto(t)
    /\ UNCHANGED <<file_access_sync, output_file, timestamp>>
    /\ UNCHANGED <<trace_input, memory, timedVars, eventVars, moreVars>>
    /\ UNCHANGED <<bufVars, thrVars>>

\* part(input): the allocation, through GlobalAlloc::alloc
PartAlloc(t) ==
    /\ job[t] \in {"warm_alloc", "traced_alloc", "timed_alloc", "other_alloc"}
    /\ job[t] = "other_alloc" => nCalls < MaxCalls
    /\ \E now \in Now :
         /\ clock' = now
         /\ files' = IF active
                     THEN WriteEvFiles(files, output_file, timestamp, now,
                                       Event("Alloc", 1, PartBytes))
                     ELSE files
    /\ nCalls' = IF job[t] = "other_alloc" THEN nCalls + 1 ELSE nCalls
    /\ JobGoto(t)
    /\ UNCHANGED <<active, file_access_sync, output_file, timestamp>>
    /\ UNCHANGED <<trace_input, memory, timedVars, eventVars, moreVars>>
    /\ UNCHANGED <<pc, op, ev, arg, seen_active, ret, my_ts, skipped>>
    /\ UNCHANGED bufVars

\* part(input): the release, through GlobalAlloc::dealloc
PartFree(t) ==
    /\ job[t] \in {"warm_free", "traced_free", "timed_free", "other_free"}
    /\ \E now \in Now :
         /\ clock' = now
         /\ files' = IF active
                     THEN WriteEvFiles(files, output_file, timestamp, now,
                                       Event("Free", 1, PartBytes))
                     ELSE files
    /\ JobGoto(t)
    /\ UNCHANGED <<active, file_access_sync, output_file, timestamp>>
    /\ UNCHANGED <<trace_input, memory, timedVars, eventVars, moreVars>>
    /\ UNCHANGED <<bufVars, thrVars>>

\* alloc.clear_file().unwrap(), the file read back from its start,
\* get_data; trace_input and memory keep the log and the report of job t1
JobCollect(t) ==
    /\ job[t] = "clear_file"
    /\ IF output_file = None
       THEN /\ job' = [job EXCEPT ![t] = "panicked"]
            /\ UNCHANGED <<output_file, got_back, trace_input, memory>>
       ELSE /\ output_file' = None
            /\ got_back' = [got_back EXCEPT ![t] = output_file]
            /\ trace_input' = IF t = "t1" THEN files[output_file] ELSE trace_input
            /\ memory' = IF t = "t1" THEN get_data(files[output_file]) ELSE memory
            /\ JobGoto(t)
    /\ UNCHANGED <<active, file_access_sync, timestamp, files, clock>>
    /\ UNCHANGED <<timedVars, eventVars, poolVars, trace_file, restVars>>
    /\ UNCHANGED <<bufVars, thrVars>>

InitTraced ==
    /\ job \in {[t \in Threads |-> IF t = "t1" THEN "set_file" ELSE other] :
                  other \in {"other_alloc", "set_file"}}
    /\ trace_input = <<>>
    /\ memory = NoMemory
    /\ TimedIdle
    /\ EventsIdle
    /\ MoreIdle
    /\ buffer = None
    /\ pushed = <<>>
    /\ grows = 0
    /\ aborted = FALSE
    /\ dropped = FALSE
    /\ clears = 0
    /\ nOps = 0
    /\ realloc_ret = "none"
    /\ active = TracingAlloc_new.active
    /\ file_access_sync = TracingAlloc_new.file_access_sync
    /\ output_file = TracingAlloc_new.output_file
    /\ timestamp = TracingAlloc_new.timestamp
    /\ files = [f \in Files |-> <<>>]
    /\ clock = 0
    /\ ThreadsIdle

NextTraced ==
    \E t \in Threads :
        \/ JobSetFile(t) \/ JobEnable(t) \/ JobDisable(t)
        \/ PartAlloc(t) \/ PartFree(t)
        \/ JobCollect(t)

SpecTraced == InitTraced /\ [][NextTraced]_vars

\* C16: the traced run of a function that allocates N bytes once and frees
\* them gives max_memory = N and alloc_count = 1: the log replayed is Start,
\* Alloc N, Free N, End of that one run.
C16_TracedRunOfOneAllocation ==
    job["t1"] = "done" =>
        /\ memory.max_memory = PartBytes
        /\ memory.num_allocs = 1
        /\ [i \in 1..Len(trace_input) |->
               <<trace_input[i].symbol, trace_input[i].size>>]
             = << <<"S", 0>>, <<"A", PartBytes>>, <<"F", PartBytes>>, <<"E", 0>> >>

\* C30: the clear_file that follows bench_function returns Some, and the
\* file is the one this call of benchmark gave to set_file, also when two
\* jobs run benchmark at once on the one allocator.
C30_ClearFileGivesOwnFileBack ==
    \A t \in Threads :
        /\ job[t] # "panicked"
        /\ job[t] = "done" => got_back[t] = trace_file[t]

\* ------------------------------------------------------------------------
\* SpecTimed: the timing half of bench_function (args.no_mem set): the five
\* estimate runs, total_runs, the timed loop and the RuntimeData.
\* Durations are whole nanoseconds.
\* ------------------------------------------------------------------------
NanosPerSec == 1000000000
MinTotalRuns == 10
MaxTotalRuns == 10000000

BenchTimes == {0, 1, 2}
\* what the fastest of the five estimate runs can read
MinRunEstimates == {0, 50, 1000, 100000000, 2000000000}
\* what one timed run can read
Durations == {1, 2}

Min(a, b) == IF a <= b THEN a ELSE b

\* (bench_time as f64 / min_run.as_secs_f64()).ceil().max(10.0).min(10e6) as u32
\* x / 0.0 is +inf, 0.0 / 0.0 is NaN, and NaN.max(10.0) is 10.0
TotalRuns(bt, est) ==
    IF est = 0
    THEN IF bt = 0 THEN MinTotalRuns ELSE MaxTotalRuns
    ELSE LET q == (bt * NanosPerSec) \div est
             r == (bt * NanosPerSec) % est
             c == IF r > 0 THEN q + 1 ELSE q
         IN  Min(Max(c, MinTotalRuns), MaxTotalRuns)

\* the loop `for _ in 0..total_runs`, with n - smp.nSlow runs that read
\* elapsed = smp.run and smp.nSlow runs that read elapsed = smp.slow; the
\* second start.elapsed(), the one added to total_time, reads one
\* nanosecond more than the first in smp.late of the runs
TimedLoopResult(n, smp) ==
    LET total_time == (n - smp.nSlow) * smp.run + smp.nSlow * smp.slow + smp.late
    IN  [total_runs |-> n,
         min_run    |-> IF smp.nSlow = n THEN smp.slow ELSE smp.run,
         mean_run   |-> total_time \div n,
         max_run    |-> IF smp.nSlow > 0 THEN smp.slow ELSE smp.run]

\* the readings the model draws for a loop of n runs
SampleSets(n) ==
    [run : Durations, slow : Durations, nSlow : {0, 1}, late : {0, 1, n}]

InitTimed ==
    /\ job = [t \in Threads |-> IF t = "t1" THEN "estimate" ELSE "none"]
    /\ bench_time \in BenchTimes
    /\ min_run = -1
    /\ total_runs = 0
    /\ samples = NoSamples
    /\ runtime = NoRuntime
    /\ EventsIdle
    /\ MoreIdle
    /\ trace_input = <<>>
    /\ memory = NoMemory
    /\ buffer = None
    /\ pushed = <<>>
    /\ grows = 0
    /\ aborted = FALSE
    /\ dropped = FALSE
    /\ clears = 0
    /\ nOps = 0
    /\ realloc_ret = "none"
    /\ active = TracingAlloc_new.active
    /\ file_access_sync = TracingAlloc_new.file_access_sync
    /\ output_file = TracingAlloc_new.output_file
    /\ timestamp = TracingAlloc_new.timestamp
    /\ files = [f \in Files |-> <<>>]
    /\ clock = 0
    /\ ThreadsIdle

\* the five estimate runs
EstimateRuns(t) ==
    /\ job[t] = "estimate"
    /\ min_run' \in MinRunEstimates
    /\ JobGoto(t)
    /\ UNCHANGED <<bench_time, total_runs, samples, runtime>>
    /\ UNCHANGED <<trace_input, memory, eventVars, moreVars>>
    /\ UNCHANGED <<bufVars, allocVars, thrVars>>

ComputeTotalRuns(t) ==
    /\ job[t] = "total_runs"
    /\ total_runs' = TotalRuns(bench_time, min_run)
    /\ JobGoto(t)
    /\ UNCHANGED <<bench_time, min_run, samples, runtime>>
    /\ UNCHANGED <<trace_input, memory, eventVars, moreVars>>
    /\ UNCHANGED <<bufVars, allocVars, thrVars>>

\* the timed loop, from its first run to the RuntimeData
TimedLoop(t) ==
    /\ job[t] = "timed_loop"
    /\ \E smp \in SampleSets(total_runs) :
         /\ smp.run <= smp.slow
         /\ samples' = smp
         /\ runtime' = TimedLoopResult(total_runs, smp)
    /\ JobGoto(t)
    /\ UNCHANGED <<bench_time, min_run, total_runs>>
    /\ UNCHANGED <<trace_input, memory, eventVars, moreVars>>
    /\ UNCHANGED <<bufVars, allocVars, thrVars>>

NextTimed ==
    \E t \in Threads : EstimateRuns(t) \/ ComputeTotalRuns(t) \/ TimedLoop(t)

SpecTimed == InitTimed /\ [][NextTimed]_vars

\* C17: when every timed run reads the same duration d, the reduction gives
\* mean d and no spread (minimum and maximum both d).
C17_UniformSamplesReduceToD ==
    (job["t1"] = "reported" /\ samples.nSlow = 0) =>
        /\ runtime.mean_run = samples.run
        /\ runtime.min_run = samples.run
        /\ runtime.max_run = samples.run

\* C18: the timed loop ends with at least 10 samples and at most the hard
\* cap of 1,000,000 samples plus one, whatever the budget and the duration
\* of a run.
C18_SampleCountWithinCap ==
    job["t1"] = "reported" =>
        /\ runtime.total_runs >= 10
        /\ runtime.total_runs <= 1000000 + 1

\* ------------------------------------------------------------------------
\* SpecEvents: bench_days_chunk.  The dispatching thread spawns one job per
\* pool worker, every job with a Sender clone of the one channel, and the
\* handler drains the channel.  variant tells which bench_days_chunk runs:
\* "lib" (src/lib.rs: the input is opened while dispatching, the job is the
\* closure of lib.rs) or "simple" (bench/simple.rs and bench/detailed.rs:
\* the panic hook is swapped, the job is bench_worker).  The job's own steps
\* (Bench::bench, bench_worker) are not part of the sources and follow the
\* job protocol of the specification.
\* ------------------------------------------------------------------------
Outcomes == {"ok", "err", "panic"}
Variants == {"lib", "simple"}
MainThread == "main"
JobOrder == <<"t1", "t2">>
\* Timing.data.mean of a job, in some unit
Means == {1, 2}
\* the most chunks run() folds
MaxChunks == 2

EntryHook == "entry"
DefaultHook == "default"
SilentHook == "silent"

BenchEvent(kind, id, data) == [kind |-> kind, id |-> id, data |-> data]

\* job protocol: Answer; Finish if run_only; else Memory, Timing, Finish
BenchScript(ro) ==
    [answer |-> [kind |-> "Answer", goto |-> IF ro THEN "finish" ELSE "memory"],
     memory |-> [kind |-> "Memory", goto |-> "timing"],
     timing |-> [kind |-> "Timing", goto |-> "finish"],
     finish |-> [kind |-> "Finish", goto |-> "return"]]

\* bench_worker: a panic of the job is caught and becomes Error and Finish
bench_worker_on_panic == "send_error"

RECURSIVE SumSeq(_)
SumSeq(q) == IF q = <<>> THEN 0 ELSE Head(q) + SumSeq(Tail(q))

InitEvents ==
    /\ job = [t \in Threads |-> "unspawned"]
    /\ outcome \in [Threads -> Outcomes]
    /\ run_only \in BOOLEAN
    /\ variant \in Variants
    /\ main_pc = IF variant = "simple" THEN "take_hook" ELSE "spawn"
    /\ chan = <<>>
    /\ senders = {MainThread}
    /\ receiver = TRUE
    /\ received = [t \in Threads |-> <<>>]
    /\ sent = [t \in Threads |-> <<>>]
    /\ handler = "unstarted"
    /\ hook = EntryHook
    /\ old_panic_hook = "none"
    /\ time_chan = <<>>
    /\ reported_time = -1
    /\ timing_data = [t \in Threads |-> -1]
    /\ run_total = 0
    /\ chunk = 1
    /\ means_received = 0
    /\ process = "running"
    /\ TimedIdle
    /\ MoreIdle
    /\ trace_input = <<>>
    /\ memory = NoMemory
    /\ buffer = None
    /\ pushed = <<>>
    /\ grows = 0
    /\ aborted = FALSE
    /\ dropped = FALSE
    /\ clears = 0
    /\ nOps = 0
    /\ realloc_ret = "none"
    /\ active = TracingAlloc_new.active
    /\ file_access_sync = TracingAlloc_new.file_access_sync
    /\ output_file = TracingAlloc_new.output_file
    /\ timestamp = TracingAlloc_new.timestamp
    /\ files = [f \in Files |-> <<>>]
    /\ clock = 0
    /\ ThreadsIdle

\* the job the dispatch loop is at: the first of funcs not yet reached
NextToSpawn(t) ==
    \E i \in 1..Len(JobOrder) :
        /\ JobOrder[i] = t
        /\ job[t] = "unspawned"
        /\ \A j \in 1..(i - 1) : job[JobOrder[j]] # "unspawned"

\* let old_panic_hook = panic::take_hook();
TakeHook ==
    /\ process = "running"
    /\ main_pc = "take_hook"
    /\ old_panic_hook' = hook
    /\ hook' = DefaultHook
    /\ main_pc' = "set_hook"
    /\ UNCHANGED <<outcome, run_only, chan, senders, received, process,
                   sent, handler, variant, time_chan, reported_time, timing_data,
                   receiver, run_total, chunk, means_received, job>>
    /\ UNCHANGED <<trace_input, memory, timedVars, moreVars>>
    /\ UNCHANGED <<bufVars, allocVars, thrVars>>

\* panic::set_hook(Box::new(|_| {}));
SetHook ==
    /\ process = "running"
    /\ main_pc = "set_hook"
    /\ hook' = SilentHook
    /\ main_pc' = "spawn"
    /\ UNCHANGED <<outcome, run_only, chan, senders, received, process,
                   sent, handler, variant, old_panic_hook, time_chan, reported_time,
                   timing_data, receiver, run_total, chunk, means_received, job>>
    /\ UNCHANGED <<trace_input, memory, timedVars, moreVars>>
    /\ UNCHANGED <<bufVars, allocVars, thrVars>>

\* one turn of the dispatch loop: sender.clone(), pool.spawn(..)
Spawn(t) ==
    /\ process = "running"
    /\ main_pc = "spawn"
    /\ NextToSpawn(t)
    /\ senders' = senders \cup {t}
    /\ job' = [job EXCEPT ![t] = "call"]
    /\ UNCHANGED <<outcome, run_only, chan, received, process, sent,
                   handler, main_pc, variant, hook, old_panic_hook, time_chan,
                   reported_time, timing_data, receiver, run_total, chunk, means_received>>
    /\ UNCHANGED <<trace_input, memory, timedVars, moreVars>>
    /\ UNCHANGED <<bufVars, allocVars, thrVars>>

\* one turn of the dispatch loop of lib.rs: input(year, func.day).open()?
\* fails, and bench_days_chunk returns the error; its Sender and Receiver
\* are dropped
OpenFails(t) ==
    /\ process = "running"
    /\ main_pc = "spawn"
    /\ variant = "lib"
    /\ NextToSpawn(t)
    /\ job' = [job EXCEPT ![t] = "no_input"]
    /\ senders' = senders \ {MainThread}
    /\ receiver' = FALSE
    /\ main_pc' = "returned_err"
    /\ UNCHANGED <<outcome, run_only, chan, received, process, sent,
                   handler, variant, hook, old_panic_hook, time_chan, reported_time,
                   timing_data, run_total, chunk, means_received>>
    /\ UNCHANGED <<trace_input, memory, timedVars, moreVars>>
    /\ UNCHANGED <<bufVars, allocVars, thrVars>>

\* f(&input, bench): the candidate function is called.  In lib.rs a panic
\* unwinds out of the closure given to pool.spawn; the pool has no panic
\* handler, so the process is aborted.
JobCall(t) ==
    /\ process = "running"
    /\ job[t] = "call"
    /\ job' = [job EXCEPT ![t] =
                 CASE outcome[t] = "ok"    -> "answer"
                   [] outcome[t] = "err"   -> "send_error"
                   [] outcome[t] = "panic" ->
                        IF variant = "lib" THEN "panicked"
                        ELSE bench_worker_on_panic]
    /\ process' = IF outcome[t] = "panic" /\ variant = "lib"
                  THEN "aborted" ELSE process
    /\ UNCHANGED <<outcome, run_only, chan, senders, received, sent,
                   handler, main_pc, variant, hook, old_panic_hook, time_chan,
                   reported_time, timing_data, receiver, run_total, chunk, means_received>>
    /\ UNCHANGED <<trace_input, memory, timedVars, moreVars>>
    /\ UNCHANGED <<bufVars, allocVars, thrVars>>

\* the job sends its next event to the receiver (the protocol does not say
\* what a job does once the receiver is gone)
BenchEmit(t) ==
    /\ process = "running"
    /\ receiver
    /\ job[t] \in DOMAIN BenchScript(run_only)
    /\ LET step == BenchScript(run_only)[job[t]]
       IN  \E data \in IF step.kind = "Timing" THEN Means ELSE {0} :
             /\ chan' = Append(chan, BenchEvent(step.kind, t, data))
             /\ sent' = [sent EXCEPT ![t] = Append(@, step.kind)]
             /\ job' = [job EXCEPT ![t] = step.goto]
    /\ UNCHANGED <<outcome, run_only, senders, received, process,
                   handler, main_pc, variant, hook, old_panic_hook, time_chan,
                   reported_time, timing_data, receiver, run_total, chunk, means_received>>
    /\ UNCHANGED <<trace_input, memory, timedVars, moreVars>>
    /\ UNCHANGED <<bufVars, allocVars, thrVars>>

\* if let Err(e) = f(..) { sender.send(BenchEvent::Error { .. }).expect(..)
SendError(t) ==
    /\ process = "running"
    /\ job[t] = "send_error"
    /\ IF receiver
       THEN /\ chan' = Append(chan, BenchEvent("Error", t, 0))
            /\ sent' = [sent EXCEPT ![t] = Append(@, "Error")]
            /\ job' = [job EXCEPT ![t] = "send_finish"]
            /\ UNCHANGED process
       ELSE /\ job' = [job EXCEPT ![t] = "panicked"]
            /\ process' = "aborted"
            /\ UNCHANGED <<chan, sent>>
    /\ UNCHANGED <<outcome, run_only, senders, received, handler,
                   main_pc, variant, hook, old_panic_hook, time_chan, reported_time,
                   timing_data, receiver, run_total, chunk, means_received>>
    /\ UNCHANGED <<trace_input, memory, timedVars, moreVars>>
    /\ UNCHANGED <<bufVars, allocVars, thrVars>>

\* .. sender.send(BenchEvent::Finish { id }).expect(..) }
SendFinish(t) ==
    /\ process = "running"
    /\ job[t] = "send_finish"
    /\ IF receiver
       THEN /\ chan' = Append(chan, BenchEvent("Finish", t, 0))
            /\ sent' = [sent EXCEPT ![t] = Append(@, "Finish")]
            /\ job' = [job EXCEPT ![t] = "return"]
            /\ UNCHANGED process
       ELSE /\ job' = [job EXCEPT ![t] = "panicked"]
            /\ process' = "aborted"
            /\ UNCHANGED <<chan, sent>>
    /\ UNCHANGED <<outcome, run_only, senders, received, handler,
                   main_pc, variant, hook, old_panic_hook, time_chan, reported_time,
                   timing_data, receiver, run_total, chunk, means_received>>
    /\ UNCHANGED <<trace_input, memory, timedVars, moreVars>>
    /\ UNCHANGED <<bufVars, allocVars, thrVars>>

\* the closure returns and its Sender clones are dropped
JobReturn(t) ==
    /\ process = "running"
    /\ job[t] = "return"
    /\ senders' = senders \ {t}
    /\ job' = [job EXCEPT ![t] = "end"]
    /\ UNCHANGED <<outcome, run_only, chan, received, process, sent,
                   handler, main_pc, variant, hook, old_panic_hook, time_chan,
                   reported_time, timing_data, receiver, run_total, chunk, means_received>>
    /\ UNCHANGED <<trace_input, memory, timedVars, moreVars>>
    /\ UNCHANGED <<bufVars, allocVars, thrVars>>

\* Mutant of DropSender: the dispatching thread keeps its Sender.
DropSender_keeps ==
    /\ process = "running"
    /\ main_pc = "spawn"
    /\ \A t \in Threads : job[t] # "unspawned"
    /\ senders' = senders
    /\ main_pc' = "start_handler"
    /\ UNCHANGED <<outcome, run_only, chan, received, process, sent,
                   handler, variant, hook, old_panic_hook, time_chan, reported_time,
                   timing_data, receiver, run_total, chunk, means_received, job>>
    /\ UNCHANGED <<trace_input, memory, timedVars, moreVars>>
    /\ UNCHANGED <<bufVars, allocVars, thrVars>>

\* the dispatch loop is over: drop(sender)
DropSender ==
    /\ process = "running"
    /\ main_pc = "spawn"
    /\ \A t \in Threads : job[t] # "unspawned"
    /\ senders' = senders \ {MainThread}
    /\ main_pc' = "start_handler"
    /\ UNCHANGED <<outcome, run_only, chan, received, process, sent,
                   handler, variant, hook, old_panic_hook, time_chan, reported_time,
                   timing_data, receiver, run_total, chunk, means_received, job>>
    /\ UNCHANGED <<trace_input, memory, timedVars, moreVars>>
    /\ UNCHANGED <<bufVars, allocVars, thrVars>>

\* thread::spawn of the handler (simple.rs, lib.rs), the call of
\* ui_update_worker (detailed.rs)
StartHandler ==
    /\ process = "running"
    /\ main_pc = "start_handler"
    /\ handler' = "running"
    /\ main_pc' = "join"
    /\ UNCHANGED <<outcome, run_only, chan, senders, received, process,
                   sent, variant, hook, old_panic_hook, time_chan, reported_time,
                   timing_data, receiver, run_total, chunk, means_received, job>>
    /\ UNCHANGED <<trace_input, memory, timedVars, moreVars>>
    /\ UNCHANGED <<bufVars, allocVars, thrVars>>

\* Mutant of HandleEvent: the handler is given the newest event first.
HandleEvent_newest_first ==
    /\ process = "running"
    /\ handler = "running"
    /\ chan # <<>>
    /\ LET event == chan[Len(chan)]
       IN  /\ received' = [received EXCEPT ![event.id] = Append(@, event.kind)]
           /\ time_chan' = IF event.kind = "Timing"
                           THEN Append(time_chan, event.data) ELSE time_chan
           /\ timing_data' = IF event.kind = "Timing"
                             THEN [timing_data EXCEPT ![event.id] = event.data]
                             ELSE timing_data
           /\ means_received' = IF event.kind = "Timing"
                                THEN means_received + event.data
                                ELSE means_received
    /\ chan' = SubSeq(chan, 1, Len(chan) - 1)
    /\ UNCHANGED <<outcome, run_only, senders, process, sent, handler,
                   main_pc, variant, hook, old_panic_hook, reported_time, receiver,
                   run_total, chunk, job>>
    /\ UNCHANGED <<trace_input, memory, timedVars, moreVars>>
    /\ UNCHANGED <<bufVars, allocVars, thrVars>>

\* Mutant of HandleEvent: the channel hands out its events in any order.
HandleEvent_any_order ==
    /\ process = "running"
    /\ handler = "running"
    /\ chan # <<>>
    /\ \E i \in 1..Len(chan) :
         LET event == chan[i]
         IN
           /\ chan' = SubSeq(chan, 1, i - 1) \o SubSeq(chan, i + 1, Len(chan))
           /\ received' = [received EXCEPT ![event.id] = Append(@, event.kind)]
           /\ time_chan' = IF event.kind = "Timing"
                           THEN Append(time_chan, event.data) ELSE time_chan
           /\ timing_data' = IF event.kind = "Timing"
                             THEN [timing_data EXCEPT ![event.id] = event.data]
                             ELSE timing_data
           /\ means_received' = IF event.kind = "Timing"
                                THEN means_received + event.data
                                ELSE means_received
    /\ UNCHANGED <<outcome, run_only, senders, process, sent, handler,
                   main_pc, variant, hook, old_panic_hook, reported_time, receiver,
                   run_total, chunk, job>>
    /\ UNCHANGED <<trace_input, memory, timedVars, moreVars>>
    /\ UNCHANGED <<bufVars, allocVars, thrVars>>

\* Mutant of HandleEvent: a Finish event is taken and not matched.
HandleEvent_loses ==
    /\ process = "running"
    /\ handler = "running"
    /\ chan # <<>>
    /\ LET event == Head(chan)
       IN  /\ received' = IF event.kind = "Finish" THEN received
                       ELSE [received EXCEPT ![event.id] = Append(@, event.kind)]
           /\ time_chan' = IF event.kind = "Timing"
                           THEN Append(time_chan, event.data) ELSE time_chan
           /\ timing_data' = IF event.kind = "Timing"
                             THEN [timing_data EXCEPT ![event.id] = event.data]
                             ELSE timing_data
           /\ means_received' = IF event.kind = "Timing"
                                THEN means_received + event.data
                                ELSE means_received
    /\ chan' = Tail(chan)
    /\ UNCHANGED <<outcome, run_only, senders, process, sent, handler,
                   main_pc, variant, hook, old_panic_hook, reported_time, receiver,
                   run_total, chunk, job>>
    /\ UNCHANGED <<trace_input, memory, timedVars, moreVars>>
    /\ UNCHANGED <<bufVars, allocVars, thrVars>>

\* for event in receiver.iter() { match event { .. } }: one event
HandleEvent ==
    /\ process = "running"
    /\ handler = "running"
    /\ chan # <<>>
    /\ LET event == Head(chan)
       IN  /\ received' = [received EXCEPT ![event.id] = Append(@, event.kind)]
           /\ time_chan' = IF event.kind = "Timing"
                           THEN Append(time_chan, event.data) ELSE time_chan
           /\ timing_data' = IF event.kind = "Timing"
                             THEN [timing_data EXCEPT ![event.id] = event.data]
                             ELSE timing_data
           /\ means_received' = IF event.kind = "Timing"
                                THEN means_received + event.data
                                ELSE means_received
    /\ chan' = Tail(chan)
    /\ UNCHANGED <<outcome, run_only, senders, process, sent, handler,
                   main_pc, variant, hook, old_panic_hook, reported_time, receiver,
                   run_total, chunk, job>>
    /\ UNCHANGED <<trace_input, memory, timedVars, moreVars>>
    /\ UNCHANGED <<bufVars, allocVars, thrVars>>

\* receiver.iter() ends: the channel is empty and every Sender is dropped
HandlerExit ==
    /\ process = "running"
    /\ handler = "running"
    /\ chan = <<>>
    /\ senders = {}
    /\ handler' = "done"
    /\ UNCHANGED <<outcome, run_only, chan, senders, received, process,
                   sent, main_pc, variant, hook, old_panic_hook, time_chan, reported_time,
                   timing_data, receiver, run_total, chunk, means_received, job>>
    /\ UNCHANGED <<trace_input, memory, timedVars, moreVars>>
    /\ UNCHANGED <<bufVars, allocVars, thrVars>>

\* funcs[id].finish(): bar.finish()
BarFinished(t) == \E i \in 1..Len(received[t]) : received[t][i] = "Finish"

\* tick_bars_worker: the loop ends when every bar is finished
TickerExits == \A t \in Threads : BarFinished(t)

\* multi_bars.join(), ui_update_thread.join() / handler_thread.join(),
\* tick_thread.join()
Join ==
    /\ process = "running"
    /\ main_pc = "join"
    /\ handler = "done"
    /\ TickerExits
    /\ main_pc' = IF variant = "simple" THEN "restore_hook" ELSE "sum"
    /\ UNCHANGED <<outcome, run_only, chan, senders, received, process,
                   sent, handler, variant, hook, old_panic_hook, time_chan, reported_time,
                   timing_data, receiver, run_total, chunk, means_received, job>>
    /\ UNCHANGED <<trace_input, memory, timedVars, moreVars>>
    /\ UNCHANGED <<bufVars, allocVars, thrVars>>

\* Mutant of RestoreHook: the silent hook is left installed.
RestoreHook_skipped ==
    /\ process = "running"
    /\ main_pc = "restore_hook"
    /\ hook' = hook
    /\ main_pc' = "sum"
    /\ UNCHANGED <<outcome, run_only, chan, senders, received, process,
                   sent, handler, variant, old_panic_hook, time_chan, reported_time,
                   timing_data, receiver, run_total, chunk, means_received, job>>
    /\ UNCHANGED <<trace_input, memory, timedVars, moreVars>>
    /\ UNCHANGED <<bufVars, allocVars, thrVars>>

\* panic::set_hook(old_panic_hook);
RestoreHook ==
    /\ process = "running"
    /\ main_pc = "restore_hook"
    /\ hook' = old_panic_hook
    /\ main_pc' = "sum"
    /\ UNCHANGED <<outcome, run_only, chan, senders, received, process,
                   sent, handler, variant, old_panic_hook, time_chan, reported_time,
                   timing_data, receiver, run_total, chunk, means_received, job>>
    /\ UNCHANGED <<trace_input, memory, timedVars, moreVars>>
    /\ UNCHANGED <<bufVars, allocVars, thrVars>>

\* Mutant of ReturnTotal: the Timing events are counted, not summed.
ReturnTotal_counts ==
    /\ process = "running"
    /\ main_pc = "sum"
    /\ reported_time' = Len(time_chan)
    /\ main_pc' = "returned"
    /\ UNCHANGED <<outcome, run_only, chan, senders, received, process,
                   sent, handler, variant, hook, old_panic_hook, time_chan, timing_data,
                   receiver, run_total, chunk, means_received, job>>
    /\ UNCHANGED <<trace_input, memory, timedVars, moreVars>>
    /\ UNCHANGED <<bufVars, allocVars, thrVars>>

\* Ok(time_receiver.iter().sum())
ReturnTotal ==
    /\ process = "running"
    /\ main_pc = "sum"
    /\ reported_time' = SumSeq(time_chan)
    /\ main_pc' = "returned"
    /\ UNCHANGED <<outcome, run_only, chan, senders, received, process,
                   sent, handler, variant, hook, old_panic_hook, time_chan, timing_data,
                   receiver, run_total, chunk, means_received, job>>
    /\ UNCHANGED <<trace_input, memory, timedVars, moreVars>>
    /\ UNCHANGED <<bufVars, allocVars, thrVars>>

\* run: try_fold(Duration::ZERO, |acc, a| a.map(|a| a + acc)), after the
\* last chunk
FoldLastChunk ==
    /\ process = "running"
    /\ main_pc = "returned"
    /\ run_total' = run_total + reported_time
    /\ main_pc' = "run_returned"
    /\ UNCHANGED <<outcome, run_only, chan, senders, received, process,
                   sent, handler, variant, hook, old_panic_hook, time_chan, reported_time,
                   timing_data, receiver, chunk, means_received, job>>
    /\ UNCHANGED <<trace_input, memory, timedVars, moreVars>>
    /\ UNCHANGED <<bufVars, allocVars, thrVars>>

\* run: try_fold(..) folds the chunk and bench_days_chunk is called for the
\* next chunk
FoldAndNextChunk ==
    /\ process = "running"
    /\ main_pc = "returned"
    /\ chunk < MaxChunks
    /\ chunk' = chunk + 1
    /\ run_total' = run_total + reported_time
    /\ main_pc' = IF variant = "simple" THEN "take_hook" ELSE "spawn"
    /\ job' = [t \in Threads |-> "unspawned"]
    /\ outcome' \in [Threads -> Outcomes]
    /\ chan' = <<>>
    /\ senders' = {MainThread}
    /\ received' = [t \in Threads |-> <<>>]
    /\ sent' = [t \in Threads |-> <<>>]
    /\ handler' = "unstarted"
    /\ old_panic_hook' = "none"
    /\ time_chan' = <<>>
    /\ reported_time' = -1
    /\ timing_data' = [t \in Threads |-> -1]
    /\ UNCHANGED <<run_only, process, variant, hook, receiver,
                   means_received>>
    /\ UNCHANGED <<trace_input, memory, timedVars, moreVars>>
    /\ UNCHANGED <<bufVars, allocVars, thrVars>>

HandlerDone == handler = "done"

NextEvents ==
    \/ \E t \in Threads :
         \/ Spawn(t) \/ OpenFails(t)
         \/ JobCall(t) \/ BenchEmit(t)
         \/ SendError(t) \/ SendFinish(t)
         \/ JobReturn(t)
    \/ TakeHook \/ SetHook
    \/ DropSender \/ StartHandler
    \/ HandleEvent \/ HandlerExit
    \/ Join \/ RestoreHook \/ ReturnTotal
    \/ FoldLastChunk \/ FoldAndNextChunk

SpecEvents == InitEvents /\ [][NextEvents]_vars

\* the kinds of the events of job t still in the channel, oldest first
RECURSIVE KindsOf(_, _)
KindsOf(t, evs) ==
    IF evs = <<>> THEN <<>>
    ELSE IF Head(evs).id = t THEN <<Head(evs).kind>> \o KindsOf(t, Tail(evs))
         ELSE KindsOf(t, Tail(evs))

\* every event job t has sent, in the order it sent them
Emitted(t) == received[t] \o KindsOf(t, chan)

IsPrefix(a, b) == Len(a) <= Len(b) /\ a = SubSeq(b, 1, Len(a))

FullRun == <<"Answer", "Memory", "Timing", "Finish">>

\* C19: a job that is not run_only and whose function succeeds sends
\* Answer, Memory, Timing, Finish, once each and in that order, and nothing
\* after Finish; the handler matches them in that order.
C19_SuccessfulJobEvents ==
    \A t \in Threads : (outcome[t] = "ok" /\ ~run_only) =>
        /\ IsPrefix(Emitted(t), FullRun)
        /\ IsPrefix(received[t], FullRun)
        /\ job[t] \in {"return", "end"} => Emitted(t) = FullRun
        /\ HandlerDone => received[t] = FullRun

C19_Witness ==
    /\ HandlerDone
    /\ ~run_only
    /\ \A t \in Threads : outcome[t] = "ok" /\ received[t] = FullRun

\* C20: a job whose function panics has exactly one Error and one Finish
\* and no Memory or Timing, and the panic does not end the process: every
\* other job still runs to its Finish.
C20_PanicBecomesErrorAndFinish ==
    /\ process = "running"
    /\ HandlerDone =>
         \A t \in Threads :
            /\ outcome[t] = "panic" => received[t] = <<"Error", "Finish">>
            /\ received[t] # <<>> /\ received[t][Len(received[t])] = "Finish"

\* C21: a job whose function reports failure sends Error and, after it,
\* only Finish (no Answer, Memory or Timing); the failure does not leave the
\* worker: the closure returns and the process goes on.
C21_FailureStaysInJob ==
    \A t \in Threads : outcome[t] = "err" =>
        /\ IsPrefix(sent[t], <<"Error", "Finish">>)
        /\ job[t] = "end" => sent[t] = <<"Error", "Finish">>
        /\ job[t] # "panicked"

\* C22: the handler matches the events of one job in the order the job
\* sent them, however the jobs interleave.
C22_PerJobFifo ==
    \A t \in Threads : IsPrefix(received[t], sent[t])

C22_Witness ==
    /\ HandlerDone
    /\ \A t \in Threads : Len(received[t]) >= 2
    /\ received["t1"] # received["t2"]

\* the number of events of job t still in the channel
InFlight(t) == Len(KindsOf(t, chan))

\* C23: every event a job has sent is either still in the channel or has
\* been matched, never both and never twice; when the handler's loop ends
\* all of them have been matched; and a step changes the state kept for job
\* t only by matching the oldest event of the channel, which carries id t.
C23_EachEventMatchedOnce ==
    /\ [](\A t \in Threads :
            /\ Len(received[t]) + InFlight(t) = Len(sent[t])
            /\ HandlerDone => received[t] = sent[t])
    /\ [][\A t \in Threads :
            (received'[t] # received[t] \/ timing_data'[t] # timing_data[t]) =>
                \/ /\ chan # <<>>
                   /\ Head(chan).id = t
                   /\ chan' = Tail(chan)
                   /\ received'[t] = Append(received[t], Head(chan).kind)
                \/ chunk' # chunk]_vars

C23_Witness ==
    /\ HandlerDone
    /\ \A t \in Threads : sent[t] # <<>> /\ received[t] = sent[t]
    /\ timing_data["t1"] # -1 /\ timing_data["t2"] = -1

SpecEventsFair == SpecEvents /\ WF_vars(NextEvents)

\* C24: the handler's loop ends only when every Sender has been dropped and
\* the channel is empty, and once every job of the chunk has finished it
\* does end.
C24_HandlerEndsWhenSendersDropped ==
    /\ [](handler = "done" => (senders = {} /\ chan = <<>>))
    /\ (\A t \in Threads : job[t] = "end") ~> (handler = "done")

C24_Witness ==
    /\ handler = "done"
    /\ \A t \in Threads : job[t] = "end"
    /\ main_pc = "join"

\* C25: the total the run reports is the sum of the means of all Timing
\* events matched in the run, over all chunks; a job without a Timing event
\* adds nothing.
C25_TotalIsSumOfMeans ==
    /\ main_pc = "returned" =>
         reported_time = SumSeq([i \in 1..Len(JobOrder) |->
                                   IF timing_data[JobOrder[i]] = -1 THEN 0
                                   ELSE timing_data[JobOrder[i]]])
    /\ main_pc = "run_returned" => run_total = means_received

C25_Witness ==
    /\ main_pc = "run_returned"
    /\ chunk = 2
    /\ run_total = 4
    /\ timing_data["t1"] = 2 /\ timing_data["t2"] = -1

\* C27: while a job of the chunk is dispatched and the handler has not
\* finished, the panic hook is the silent one; when bench_days_chunk
\* returns, the hook is the one found on entry.
C27_HookSilentThenRestored ==
    variant = "simple" =>
        /\ ((\E t \in Threads : job[t] # "unspawned") /\ handler # "done")
              => hook = SilentHook
        /\ main_pc \in {"sum", "returned", "run_returned"} => hook = EntryHook
        /\ main_pc = "take_hook" => hook = EntryHook

C27_Witness ==
    /\ variant = "simple"
    /\ main_pc = "returned"
    /\ hook = EntryHook
    /\ old_panic_hook = EntryHook

\* C28: when the input of one job cannot be opened, the other jobs of the
\* chunk are still dispatched and their events are still received.
C28_OnlyThatJobFails ==
    \A t \in Threads : job[t] = "no_input" =>
        /\ receiver
        /\ \A u \in Threads \ {t} : job[u] = "unspawned" => main_pc = "spawn"

\* ------------------------------------------------------------------------
\* SpecPool: the size of the worker pool (run, run_simple_bench,
\* run_detailed_bench).
\* ------------------------------------------------------------------------
MaxCores == 8

\* a.saturating_sub(b) on usize
saturating_sub(a, b) == IF a >= b THEN a - b ELSE 0

\* Mutant of NumThreads: without the .max(1)
NumThreads_no_floor(opt, cores) ==
    IF opt = <<>> THEN saturating_sub(cores, 2) ELSE opt[1]

\* ARGS.num_threads
\*     .unwrap_or_else(|| num_cpus::get_physical().saturating_sub(2))
\*     .max(1)
NumThreads(opt, cores) ==
    Max(IF opt = <<>> THEN saturating_sub(cores, 2) ELSE opt[1], 1)

InitPool ==
    /\ physical \in 1..MaxCores
    /\ num_threads \in {<<>>} \cup {Some(n) : n \in 0..MaxCores}
    /\ pool_threads = -1
    /\ trace_file = [t \in Threads |-> None]
    /\ got_back = [t \in Threads |-> None]
    /\ RestIdle
    /\ job = [t \in Threads |-> "none"]
    /\ TimedIdle
    /\ EventsIdle
    /\ trace_input = <<>>
    /\ memory = NoMemory
    /\ buffer = None
    /\ pushed = <<>>
    /\ grows = 0
    /\ aborted = FALSE
    /\ dropped = FALSE
    /\ clears = 0
    /\ nOps = 0
    /\ realloc_ret = "none"
    /\ active = TracingAlloc_new.active
    /\ file_access_sync = TracingAlloc_new.file_access_sync
    /\ output_file = TracingAlloc_new.output_file
    /\ timestamp = TracingAlloc_new.timestamp
    /\ files = [f \in Files |-> <<>>]
    /\ clock = 0
    /\ ThreadsIdle

\* ThreadPoolBuilder::new().num_threads(num_threads).build()
BuildPool ==
    /\ pool_threads = -1
    /\ pool_threads' = NumThreads(num_threads, physical)
    /\ UNCHANGED <<physical, num_threads, fileVars, restVars>>
    /\ UNCHANGED <<trace_input, memory, job, timedVars, eventVars>>
    /\ UNCHANGED <<bufVars, allocVars, thrVars>>

NextPool == BuildPool

SpecPool == InitPool /\ [][NextPool]_vars

\* C26 as stated: the pool has max(1, physical_cores - k) threads, k being
\* the override when one is given and 2 otherwise.
C26_PoolIsCoresMinusK ==
    pool_threads # -1 =>
        LET k == IF num_threads = <<>> THEN 2 ELSE num_threads[1]
        IN  pool_threads = Max(1, physical - k)

\* C26: the pool has max(1, n) threads when the override n is given and
\* max(1, physical_cores - 2) threads otherwise; it never has 0 threads.
C26_PoolSize ==
    pool_threads # -1 =>
        /\ pool_threads >= 1
        /\ num_threads = <<>> => pool_threads = Max(1, physical - 2)
        /\ num_threads # <<>> => pool_threads = Max(1, num_threads[1])

\* the cases the floor of 1 is there for: one or two cores and no
\* override, or an override of 0
C26_Witness ==
    /\ pool_threads = 1
    /\ \/ num_threads = <<>> /\ physical <= 2
       \/ num_threads = Some(0)

\* ------------------------------------------------------------------------
\* The file_access_sync spin lock (under Spec and SpecFair)
\* ------------------------------------------------------------------------
\* The statements between a successful compare_and_swap(false, true) and the
\* matching store(false), and the statements of the spin loops.
HeldAt == {"en_ts", "en_unlock", "we_body", "we_unlock",
           "sf_replace", "sf_unlock", "cf_replace", "cf_unlock"}
SpinAt == {"en_cas", "we_cas", "sf_cas", "cf_cas"}
Holds(t) == pc[t] \in HeldAt
Spinning(t) == pc[t] \in SpinAt

\* C31: file_access_sync is a mutual-exclusion lock: no two threads are at
\* the same time between a successful compare_and_swap(false, true) and the
\* matching store(false) of enable_tracing, set_file, clear_file or write_ev,
\* the flag is set while a thread is there, and output_file, timestamp and
\* the file are only touched by a step of the thread that is there.
C31_LockIsMutex ==
    /\ [](/\ \A t \in Threads : \A u \in Threads : Holds(t) /\ Holds(u) => t = u
          /\ (\E t \in Threads : Holds(t)) => file_access_sync)
    /\ [][(output_file' # output_file \/ timestamp' # timestamp \/ files' # files)
            => \E t \in Threads : /\ Holds(t) /\ pc'[t] # pc[t]
                                   /\ \A u \in Threads \ {t} : ~Holds(u)]_vars

\* one thread is inside the locked region while the other spins on the flag
C31_Witness ==
    \E t \in Threads : \E u \in Threads \ {t} : Holds(t) /\ Spinning(u)

\* Spec with every thread scheduled: a thread that can take a step of its
\* call (a spin iteration whose swap succeeds included) is not held back
\* for ever.
SpecFair == Spec /\ \A t \in Threads : WF_vars(Next /\ pc'[t] # pc[t])

\* C32: the lock is always released by the thread that took it (while the
\* flag is set, the thread that set it is on its way to its store(false),
\* and the flag is cleared only by a step of that thread), it is not taken
\* by a thread that holds it, and with every thread scheduled a thread
\* spinning on the lock eventually acquires it.
C32_LockReleasedAndAcquired ==
    /\ [](file_access_sync => \E t \in Threads : Holds(t))
    /\ [][/\ (file_access_sync /\ ~file_access_sync')
                => \E t \in Threads : Holds(t) /\ ~Holds(t)'
           /\ (~file_access_sync /\ file_access_sync')
                => \E u \in Threads : Spinning(u) /\ Holds(u)']_vars
    /\ \A t \in Threads : Spinning(t) ~> Holds(t)

\* ------------------------------------------------------------------------
\* The runtime summary of bench_function (under SpecTimed)
\* ------------------------------------------------------------------------
\* C33: the RuntimeData returned by bench_function has
\* min_run <= mean_run <= max_run and total_runs >= 10, whatever the
\* non-decreasing clock readings of the timed loop are.
C33_MeanBetweenMinAndMax ==
    job["t1"] = "reported" =>
        /\ runtime.min_run <= runtime.mean_run
        /\ runtime.mean_run <= runtime.max_run
        /\ runtime.total_runs >= MinTotalRuns

\* ------------------------------------------------------------------------
\* SpecDetailed: bench_days of bench/detailed.rs.  The jobs are dispatched
\* as in SpecEvents (bench_worker, never run_only); the dispatching thread
\* itself then runs ui_update_worker, which keeps one progress bar for all
\* jobs, restores the panic hook and renders every function.
\* ------------------------------------------------------------------------
\* no Buffer, no TracingAlloc call and no thread of Spec is at work
AllocatorIdle ==
    /\ buffer = None
    /\ pushed = <<>>
    /\ grows = 0
    /\ aborted = FALSE
    /\ dropped = FALSE
    /\ clears = 0
    /\ nOps = 0
    /\ realloc_ret = "none"
    /\ active = TracingAlloc_new.active
    /\ file_access_sync = TracingAlloc_new.file_access_sync
    /\ output_file = TracingAlloc_new.output_file
    /\ timestamp = TracingAlloc_new.timestamp
    /\ files = [f \in Files |-> <<>>]
    /\ clock = 0
    /\ ThreadsIdle

InitDetailed ==
    /\ job = [t \in Threads |-> "unspawned"]
    /\ outcome \in [Threads -> Outcomes]
    /\ run_only = FALSE
    /\ variant = "detailed"
    /\ main_pc = "take_hook"
    /\ chan = <<>>
    /\ senders = {MainThread}
    /\ receiver = TRUE
    /\ received = [t \in Threads |-> <<>>]
    /\ sent = [t \in Threads |-> <<>>]
    /\ handler = "unstarted"
    /\ hook = EntryHook
    /\ old_panic_hook = "none"
    /\ time_chan = <<>>
    /\ reported_time = -1
    /\ timing_data = [t \in Threads |-> -1]
    /\ run_total = 0
    /\ chunk = 1
    /\ means_received = 0
    /\ process = "running"
    /\ TimedIdle
    /\ MoreIdle
    /\ trace_input = <<>>
    /\ memory = NoMemory
    /\ AllocatorIdle

\* ProgressBar::new(funcs.len() as u64)
BarLength == Cardinality(Threads)

\* Mutant of UiUpdate: Memory events are matched and their data dropped.
UiUpdate_drops_memory ==
    /\ process = "running"
    /\ variant = "detailed"
    /\ handler = "running"
    /\ chan # <<>>
    /\ LET event == Head(chan)
       IN  /\ received' = [received EXCEPT ![event.id] = Append(@, event.kind)]
           /\ memory_data' = memory_data
           /\ timing_data' = IF event.kind = "Timing"
                             THEN [timing_data EXCEPT ![event.id] = event.data]
                             ELSE timing_data
           /\ means_received' = IF event.kind = "Timing"
                                THEN means_received + event.data
                                ELSE means_received
           /\ is_error' = IF event.kind = "Error"
                          THEN [is_error EXCEPT ![event.id] = TRUE]
                          ELSE is_error
           /\ progress_bar' = IF event.kind \in {"Error", "Finish"}
                              THEN progress_bar + 1 ELSE progress_bar
    /\ chan' = Tail(chan)
    /\ UNCHANGED <<outcome, run_only, senders, process, sent, handler,
                   main_pc, variant, hook, old_panic_hook, time_chan,
                   reported_time, receiver, run_total, chunk, job>>
    /\ UNCHANGED <<rendered, chunkVars, parseVars, poolVars, fileVars>>
    /\ UNCHANGED <<trace_input, memory, timedVars>>
    /\ UNCHANGED <<bufVars, allocVars, thrVars>>

\* bench_events.iter().for_each(|event| match event { .. }): one event
UiUpdate ==
    /\ process = "running"
    /\ variant = "detailed"
    /\ handler = "running"
    /\ chan # <<>>
    /\ LET event == Head(chan)
       IN  /\ received' = [received EXCEPT ![event.id] = Append(@, event.kind)]
           /\ memory_data' = IF event.kind = "Memory"
                             THEN [memory_data EXCEPT ![event.id] = event.data]
                             ELSE memory_data
           /\ timing_data' = IF event.kind = "Timing"
                             THEN [timing_data EXCEPT ![event.id] = event.data]
                             ELSE timing_data
           /\ means_received' = IF event.kind = "Timing"
                                THEN means_received + event.data
                                ELSE means_received
           /\ is_error' = IF event.kind = "Error"
                          THEN [is_error EXCEPT ![event.id] = TRUE]
                          ELSE is_error
           /\ progress_bar' = IF event.kind \in {"Error", "Finish"}
                              THEN progress_bar + 1 ELSE progress_bar
    /\ chan' = Tail(chan)
    /\ UNCHANGED <<outcome, run_only, senders, process, sent, handler,
                   main_pc, variant, hook, old_panic_hook, time_chan,
                   reported_time, receiver, run_total, chunk, job>>
    /\ UNCHANGED <<rendered, chunkVars, parseVars, poolVars, fileVars>>
    /\ UNCHANGED <<trace_input, memory, timedVars>>
    /\ UNCHANGED <<bufVars, allocVars, thrVars>>

\* progress_bar.finish_and_clear(): ui_update_worker returns to bench_days
UiUpdateReturns ==
    /\ process = "running"
    /\ variant = "detailed"
    /\ main_pc = "join"
    /\ handler = "done"
    /\ main_pc' = "restore_hook"
    /\ UNCHANGED <<outcome, run_only, chan, senders, received, process,
                   sent, handler, variant, hook, old_panic_hook, time_chan,
                   reported_time, timing_data, receiver, run_total, chunk,
                   means_received, job>>
    /\ UNCHANGED <<trace_input, memory, timedVars, moreVars>>
    /\ UNCHANGED <<bufVars, allocVars, thrVars>>

\* render_function_data(func): it returns early for a function marked
\* is_error, and otherwise expects timing_data and memory_data
render_function_data(t) ==
    IF is_error[t] THEN "ok"
    ELSE IF timing_data[t] = -1 THEN "No timing data?"
    ELSE IF memory_data[t] = -1 THEN "No memory data?"
    ELSE "ok"

\* total_time of bench_days: the means of the functions that have timing_data
RECURSIVE TotalOfFuncs(_)
TotalOfFuncs(order) ==
    IF order = <<>> THEN 0
    ELSE (IF timing_data[Head(order)] # -1 THEN timing_data[Head(order)] ELSE 0)
           + TotalOfFuncs(Tail(order))

\* for func in funcs { .. render_function_data(func, term_width); .. }
\* Ok(total_time)
RenderAll ==
    /\ process = "running"
    /\ variant = "detailed"
    /\ main_pc = "sum"
    /\ IF \A t \in Threads : render_function_data(t) = "ok"
       THEN /\ rendered' = "ok"
            /\ reported_time' = TotalOfFuncs(JobOrder)
            /\ main_pc' = "returned"
            /\ UNCHANGED process
       ELSE /\ rendered' = "panicked"
            /\ main_pc' = "panicked"
            /\ process' = "aborted"
            /\ UNCHANGED reported_time
    /\ UNCHANGED <<outcome, run_only, chan, senders, received, sent, handler,
                   variant, hook, old_panic_hook, time_chan, timing_data,
                   receiver, run_total, chunk, means_received, job>>
    /\ UNCHANGED <<progress_bar, is_error, memory_data>>
    /\ UNCHANGED <<chunkVars, parseVars, poolVars, fileVars>>
    /\ UNCHANGED <<trace_input, memory, timedVars>>
    /\ UNCHANGED <<bufVars, allocVars, thrVars>>

NextDetailed ==
    \/ \E t \in Threads :
         \/ Spawn(t)
         \/ JobCall(t) \/ BenchEmit(t)
         \/ SendError(t) \/ SendFinish(t)
         \/ JobReturn(t)
    \/ TakeHook \/ SetHook
    \/ DropSender \/ StartHandler
    \/ UiUpdate \/ HandlerExit \/ UiUpdateReturns
    \/ RestoreHook \/ RenderAll

SpecDetailed == InitDetailed /\ [][NextDetailed]_vars

\* C34: the detailed-mode aggregator advances the progress bar exactly once
\* per job: the bar never stands beyond the number of jobs, and when the
\* aggregator ends it stands at the number of jobs, for jobs that finish
\* normally and for jobs that send Error and then Finish.
C34_BarAdvancedOncePerJob ==
    /\ progress_bar <= BarLength
    /\ HandlerDone => progress_bar = BarLength

\* C35: when the results are rendered, after the aggregator has drained
\* the channel, every function that is not marked is_error has timing_data
\* and memory_data, and no expect of render_function_data fails.
C35_RenderedJobsHaveData ==
    /\ main_pc \in {"restore_hook", "sum", "returned"} =>
          \A t \in Threads :
             ~is_error[t] => timing_data[t] # -1 /\ memory_data[t] # -1
    /\ rendered # "panicked"

\* rendered: one function with its data and one marked is_error
C35_Witness ==
    /\ rendered = "ok"
    /\ \E t \in Threads : ~is_error[t] /\ timing_data[t] # -1 /\ memory_data[t] # -1
    /\ \E t \in Threads : is_error[t] /\ timing_data[t] = -1

\* ------------------------------------------------------------------------
\* Every dispatched job reaches its Finish (under SpecEventsFair)
\* ------------------------------------------------------------------------
\* C36: for every dispatched job a Finish event is eventually delivered to
\* the handler, as the last event of that job, whether the job succeeds,
\* returns an error or panics; so every bar is finished, the ticker loop
\* ends and bench_days_chunk returns.
C36_EveryJobFinishes ==
    /\ [](\A t \in Threads :
            BarFinished(t) => received[t][Len(received[t])] = "Finish")
    /\ \A t \in Threads :
          (job[t] = "call") ~> (BarFinished(t) /\ sent[t] = received[t])
    /\ (\E t \in Threads : job[t] = "call") ~> (TickerExits /\ main_pc = "returned")

\* ------------------------------------------------------------------------
\* SpecChunks: run / run_simple_bench cut the functions to bench into
\* chunks by the height of the terminal.
\* ------------------------------------------------------------------------
MaxDays == 3
MaxHeight == 8

\* a Day: part_1, and part_2 or None
Day(d, p2) == [day |-> d, part_2 |-> p2]

\* the lists of days of at most MaxDays days
DayLists ==
    UNION {{[i \in 1..n |-> Day(i, has[i])] : has \in [1..n -> BOOLEAN]} : n \in 0..MaxDays}

\* once(day.part_1).chain(day.part_2).zip(1..), for every day in turn
RECURSIVE Parts(_)
Parts(ds) ==
    IF ds = <<>> THEN <<>>
    ELSE (IF Head(ds).part_2
          THEN <<<<Head(ds).day, 1>>, <<Head(ds).day, 2>>>>
          ELSE <<<<Head(ds).day, 1>>>>) \o Parts(Tail(ds))

\* let rows = rows.saturating_sub(5) as usize
ChunkRows == saturating_sub(rows, 5)

RECURSIVE Flatten(_)
Flatten(chunks) ==
    IF chunks = <<>> THEN <<>> ELSE Head(chunks) \o Flatten(Tail(chunks))

\* the functions the loop has gone through
Reached == Len(Flatten(benched_functions)) + Len(cur_chunk)

InitChunks ==
    /\ rows \in 0..MaxHeight
    /\ days \in DayLists
    /\ cur_chunk = <<>>
    /\ benched_functions = <<>>
    /\ main_pc = "chunking"
    /\ job = [t \in Threads |-> "none"]
    /\ outcome = [t \in Threads |-> "ok"]
    /\ run_only = FALSE
    /\ chan = <<>>
    /\ senders = {}
    /\ received = [t \in Threads |-> <<>>]
    /\ process = "running"
    /\ sent = [t \in Threads |-> <<>>]
    /\ handler = "unstarted"
    /\ variant = "lib"
    /\ hook = EntryHook
    /\ old_panic_hook = "none"
    /\ time_chan = <<>>
    /\ reported_time = -1
    /\ timing_data = [t \in Threads |-> -1]
    /\ receiver = TRUE
    /\ run_total = 0
    /\ chunk = 0
    /\ means_received = 0
    /\ UiIdle
    /\ ParseIdle
    /\ physical = 1
    /\ num_threads = <<>>
    /\ pool_threads = -1
    /\ trace_file = [t \in Threads |-> None]
    /\ got_back = [t \in Threads |-> None]
    /\ TimedIdle
    /\ trace_input = <<>>
    /\ memory = NoMemory
    /\ AllocatorIdle

\* one turn of `for (f, i) in parts`: cur_chunk is pushed when it holds
\* rows functions, then the function is pushed onto cur_chunk
ChunkStep ==
    /\ main_pc = "chunking"
    /\ Reached < Len(Parts(days))
    /\ LET f == Parts(days)[Reached + 1]
       IN  IF Len(cur_chunk) = ChunkRows
           THEN /\ benched_functions' = Append(benched_functions, cur_chunk)
                /\ cur_chunk' = <<f>>
           ELSE /\ benched_functions' = benched_functions
                /\ cur_chunk' = Append(cur_chunk, f)
    /\ UNCHANGED <<rows, days>>
    /\ UNCHANGED <<uiVars, parseVars, poolVars, fileVars>>
    /\ UNCHANGED <<trace_input, memory, job, timedVars, eventVars>>
    /\ UNCHANGED <<bufVars, allocVars, thrVars>>

\* if !cur_chunk.is_empty() { benched_functions.push(cur_chunk); }
ChunkEnd ==
    /\ main_pc = "chunking"
    /\ Reached = Len(Parts(days))
    /\ benched_functions' = IF cur_chunk # <<>>
                            THEN Append(benched_functions, cur_chunk)
                            ELSE benched_functions
    /\ cur_chunk' = <<>>
    /\ main_pc' = "chunked"
    /\ UNCHANGED <<rows, days>>
    /\ UNCHANGED <<outcome, run_only, chan, senders, received, process,
                   sent, handler, variant, hook, old_panic_hook, time_chan,
                   reported_time, timing_data, receiver, run_total, chunk,
                   means_received>>
    /\ UNCHANGED <<uiVars, parseVars, poolVars, fileVars>>
    /\ UNCHANGED <<trace_input, memory, job, timedVars>>
    /\ UNCHANGED <<bufVars, allocVars, thrVars>>

NextChunks == ChunkStep \/ ChunkEnd

SpecChunks == InitChunks /\ [][NextChunks]_vars

\* C37: the chunks are the functions to bench in their original order, none
\* lost and none twice; every chunk is non-empty and holds at most rows
\* functions, rows being the terminal height minus 5, saturating at 0; for
\* every terminal height, heights of 5 or less included.
C37_ChunksPartitionFunctions ==
    main_pc = "chunked" =>
        /\ Flatten(benched_functions) = Parts(days)
        /\ \A i \in 1..Len(benched_functions) :
              /\ Len(benched_functions[i]) >= 1
              /\ Len(benched_functions[i]) <= ChunkRows

\* ------------------------------------------------------------------------
\* SpecSession: SpecJobs with job t1 keeping to the order of benchmark():
\* it installs or takes back the file only while tracing is off, and it
\* switches tracing on or off only with a file installed.
\* ------------------------------------------------------------------------
SessionRoles ==
    /\ JobRoles
    /\ op'["t1"] \in {"set_file", "clear_file"} => ~active
    /\ op'["t1"] \in {"enable_tracing", "disable_tracing"} => output_file # None

NextSession == Next /\ SessionRoles

SpecSession == Init /\ [][NextSession]_vars

\* C39: every session of the log is Start, then Alloc/Free events, then
\* End: of the Start and End lines before an Alloc or Free line of a trace
\* file, the last one is a Start, also when another thread allocates while
\* enable_tracing or disable_tracing is executing.
C39_SessionShape ==
    \A f \in Files : \A i \in 1..Len(files[f]) :
        files[f][i].symbol \in {"A", "F"} =>
            \E j \in 1..(i - 1) :
                /\ files[f][j].symbol = "S"
                /\ \A k \in (j + 1)..(i - 1) : files[f][k].symbol \in {"A", "F"}

\* ------------------------------------------------------------------------
\* SpecParse: signed_number::<i8> applied to a short text.
\* A text is a sequence of characters; parse_out.state tells whether the
\* nom parser failed ("nom_err") or returned ("done"), ok and val are the
\* inner Result.
\* ------------------------------------------------------------------------
MaxText == 4
I8_BITS == 8
I8_MAX == Pow2(I8_BITS - 1) - 1
I8_MIN == 0 - Pow2(I8_BITS - 1)

Digits == <<"0", "1", "2", "7", "8">>
DigitValues == <<0, 1, 2, 7, 8>>
Chars == {"-", "x"} \cup {Digits[i] : i \in 1..Len(Digits)}

\* c.is_ascii_digit(), and the value of the digit
is_ascii_digit(c) == \E i \in 1..Len(Digits) : Digits[i] = c
DigitValue(c) == DigitValues[CHOOSE i \in 1..Len(Digits) : Digits[i] = c]

Texts == UNION {[1..n -> Chars] : n \in 0..MaxText}

\* take_while1(|c| c.is_ascii_digit()): the longest prefix of digits
RECURSIVE TakeDigits(_)
TakeDigits(text) ==
    IF text = <<>> \/ ~is_ascii_digit(Head(text)) THEN <<>>
    ELSE <<Head(text)>> \o TakeDigits(Tail(text))

\* the number a sequence of digits denotes
RECURSIVE Decimal(_)
Decimal(num) ==
    IF num = <<>> THEN 0
    ELSE 10 * Decimal(SubSeq(num, 1, Len(num) - 1)) + DigitValue(num[Len(num)])

\* num.parse::<i8>() of a sequence of digits: Err when the number is beyond
\* i8::MAX
parse_i8(num) ==
    IF Decimal(num) > I8_MAX THEN [ok |-> FALSE, val |-> 0]
    ELSE [ok |-> TRUE, val |-> Decimal(num)]

\* signed_number: opt(tag("-")), take_while1(digit), then
\* num.parse::<F>().map(|n| if is_neg { -n } else { n })
signed_number(input) ==
    LET is_neg == input # <<>> /\ Head(input) = "-"
        after  == IF is_neg THEN Tail(input) ELSE input
        num    == TakeDigits(after)
        parsed == parse_i8(num)
    IN  IF num = <<>>
        THEN [state |-> "nom_err", rest |-> input, ok |-> FALSE, val |-> 0]
        ELSE [state |-> "done",
              rest  |-> SubSeq(after, Len(num) + 1, Len(after)),
              ok    |-> parsed.ok,
              val   |-> IF parsed.ok /\ is_neg THEN 0 - parsed.val ELSE parsed.val]

InitParse ==
    /\ parse_in \in Texts
    /\ parse_out = NoParse
    /\ UiIdle
    /\ ChunksIdle
    /\ physical = 1
    /\ num_threads = <<>>
    /\ pool_threads = -1
    /\ trace_file = [t \in Threads |-> None]
    /\ got_back = [t \in Threads |-> None]
    /\ job = [t \in Threads |-> "none"]
    /\ TimedIdle
    /\ EventsIdle
    /\ trace_input = <<>>
    /\ memory = NoMemory
    /\ AllocatorIdle

SignedNumber ==
    /\ parse_out = NoParse
    /\ parse_out' = signed_number(parse_in)
    /\ UNCHANGED <<parse_in, uiVars, chunkVars, poolVars, fileVars>>
    /\ UNCHANGED <<trace_input, memory, job, timedVars, eventVars>>
    /\ UNCHANGED <<bufVars, allocVars, thrVars>>

NextParse == SignedNumber

SpecParse == InitParse /\ [][NextParse]_vars

\* the text starts with an optional '-' and at least one digit
IsSignedNumber(text) ==
    TakeDigits(IF text # <<>> /\ Head(text) = "-" THEN Tail(text) ELSE text) # <<>>

\* the value the text denotes
Denoted(text) ==
    IF Head(text) = "-" THEN 0 - Decimal(TakeDigits(Tail(text)))
    ELSE Decimal(TakeDigits(text))

\* C40: for a text that starts with an optional '-' and decimal digits,
\* signed_number yields Ok of the value denoted whenever that value is
\* representable in the target type (as i8: i8::MIN = -128 included), and
\* an inner Err only when it is not.
C40_SignedNumberParsesDenotedValue ==
    (parse_out # NoParse /\ IsSignedNumber(parse_in)) =>
        /\ parse_out.state = "done"
        /\ IF Denoted(parse_in) \in I8_MIN..I8_MAX
           THEN parse_out.ok /\ parse_out.val = Denoted(parse_in)
           ELSE ~parse_out.ok

====
